---- MODULE Spec2Model ----
(***************************************************************************)
(* Model of the five-stage bill-of-lading annotation pipeline:             *)
(*   step1_doc_to_images.py, step2_ocr.py, step3_vlm_grouping.py,          *)
(*   step4_vlm_classification.py, step5_merge_to_funsd.py, run_pipeline.py *)
(* The file system is the state: one artifact per page and stage.          *)
(***************************************************************************)
EXTENDS Integers, Sequences, FiniteSets, TLC

VARIABLES
    fs_images,          \* data/02_images: page name -> <<>> or <<image>>
    fs_ocr,             \* data/03_ocr_results: page name -> <<>> or <<artifact>>
    fs_grouping,        \* data/04_vlm_grouping
    fs_classification,  \* data/05_vlm_classification
    fs_funsd,           \* data/06_funsd_output/annotations
    dataset_info,       \* data/06_funsd_output/dataset_info.json
    stage,              \* the step whose process runs (0: none yet in this run)
    pc,                 \* the position of that process in its run()
    tasks,              \* the scanned tasks not yet processed
    stats,              \* self.stats of the running process
    run,                \* the number of the current pipeline run
    calls,              \* backend calls made in the current run
    writes,             \* how often each step wrote each page's artifact
    snapshot,           \* the annotations as the previous run left them
    last,               \* the last process_single call and its response
    responses,          \* the raw responses the VLM backend may give
    visualize,          \* the -v option
    fp_low,             \* the integers the double arithmetic falls just below
    config,             \* DEFAULT_CONFIG and the libraries that are installed
    page_count,         \* the number of pages of each input document
    image_file,         \* where the image of each page lies and its suffix
    slept,              \* the seconds the running step has slept between batches
    script,             \* which annotation script runs: grouping or classification
    folder,             \* the names of the image files of the input folder
    answers,            \* response.text the model gives for each image (<<>>: none)
    txt0,               \* the txt files as the script found them
    txt,                \* the txt file of each image: <<>> or <<lines>>
    txt_writes,         \* how often the script wrote each txt file
    img_paths,          \* the (img_path, txt_path) pairs the scan selected
    main,               \* the main thread of the script: position, i and j
    request,            \* the request of each image: none, queued, running, finished
    client_of,          \* the client handle the request of each image was given
    batch_futures,      \* the (future, txt_path) pairs of the current batch
    runner,             \* run_pipeline(): its position, arguments and counters
    launched,           \* the stages run_step was called for, with their outcome
    corrector,          \* process_txt_files: the files left to visit, its counters
    rasterizer,         \* DocumentToImageConverter.run: the documents left, its stats
    converter,          \* process_directory: doc_files, its position and its stats
    input_dir,          \* the documents under the input directory
    image_dir           \* data/02_images by file name: the pages saved under it

vars == <<fs_images, fs_ocr, fs_grouping, fs_classification, fs_funsd, dataset_info,
          stage, pc, tasks, stats, run, calls, writes, snapshot, last, responses,
          visualize, fp_low, config, page_count, image_file, slept, script, folder, answers, txt0, txt,
          txt_writes, img_paths, main, request, client_of, batch_futures, runner,
          launched, corrector, rasterizer, converter, input_dir, image_dir>>

(***************************************************************************)
(* Bounds of the model.                                                    *)
(***************************************************************************)
MaxCoord == 2
MaxWidth == 5
MaxTextLen == 3
MaxFrags == 2
MaxGroups == 3
MaxRuns == 2
MaxImages == 3
MaxBatch == 2

(***************************************************************************)
(* Small helpers.                                                          *)
(***************************************************************************)
Range(s) == {s[i] : i \in 1..Len(s)}

Min2(a, b) == IF a <= b THEN a ELSE b

Max2(a, b) == IF a >= b THEN a ELSE b

RECURSIVE SeqMin(_)
SeqMin(s) == IF Len(s) = 1 THEN s[1] ELSE Min2(s[1], SeqMin(Tail(s)))

RECURSIVE SeqMax(_)
SeqMax(s) == IF Len(s) = 1 THEN s[1] ELSE Max2(s[1], SeqMax(Tail(s)))

RECURSIVE SeqSum(_)
SeqSum(s) == IF s = <<>> THEN 0 ELSE s[1] + SeqSum(Tail(s))

\* Python int(): truncation toward zero of the rational num/den, den > 0.
PyInt(num, den) == IF num >= 0 THEN num \div den ELSE -((-num) \div den)

(***************************************************************************)
(* JSON values as json.loads returns them.  Every value has the same       *)
(* record shape: t the type, n the number of an int, s the content of a    *)
(* string, a the items of an array (the values of an object), k the keys   *)
(* of an object in insertion order.                                        *)
(***************************************************************************)
J_int(n) == [t |-> "int", n |-> n, s |-> "", a |-> <<>>, k |-> <<>>]

J_str(s) == [t |-> "str", n |-> 0, s |-> s, a |-> <<>>, k |-> <<>>]

J_null == [t |-> "null", n |-> 0, s |-> "", a |-> <<>>, k |-> <<>>]

J_arr(a) == [t |-> "arr", n |-> 0, s |-> "", a |-> a, k |-> <<>>]

J_obj(k, a) == [t |-> "obj", n |-> 0, s |-> "", a |-> a, k |-> k]

\* The integer literals, string literals and fence delimiters of the
\* response alphabet.
IntTok == ("0" :> 0) @@ ("1" :> 1) @@ ("2" :> 2) @@ ("22" :> 22) @@ ("28" :> 28) @@ ("99" :> 99)

StrTok == ("\"0\"" :> "0") @@ ("\"1\"" :> "1") @@ ("\"2\"" :> "2") @@ ("\"3\"" :> "3")
          @@ ("\"00\"" :> "00") @@ ("\"22\"" :> "22") @@ ("\"x\"" :> "x")

\* A fence delimiter line starts with three backquotes, written FENCE here.
FenceTok == {"FENCE", "FENCEjson"}

\* The characters of a string (iteration over a str, len of a str).
Chars == ("" :> <<>>) @@ ("0" :> <<"0">>) @@ ("1" :> <<"1">>) @@ ("2" :> <<"2">>)
         @@ ("3" :> <<"3">>) @@ ("00" :> <<"0", "0">>) @@ ("22" :> <<"2", "2">>)
         @@ ("x" :> <<"x">>)

\* int(str): the decimal strings convert, anything else raises ValueError.
IntOfStr == ("0" :> 0) @@ ("1" :> 1) @@ ("2" :> 2) @@ ("3" :> 3) @@ ("00" :> 0) @@ ("22" :> 22)

\* str(i) for a list index.
Digits == <<"0", "1", "2", "3", "4", "5", "6", "7", "8", "9">>

str(i) == Digits[i + 1]

(***************************************************************************)
(* json.loads on the token sequence of a text.                             *)
(***************************************************************************)
ParseFail == [ok |-> FALSE, v |-> J_null, i |-> 0]

ParseOk(v, i) == [ok |-> TRUE, v |-> v, i |-> i]

\* dict insertion: a repeated key keeps its position and takes the new value.
ObjPut(o, key, val) ==
    IF \E j \in 1..Len(o.k) : o.k[j] = key
    THEN LET j == CHOOSE j \in 1..Len(o.k) : o.k[j] = key
         IN J_obj(o.k, [o.a EXCEPT ![j] = val])
    ELSE J_obj(Append(o.k, key), Append(o.a, val))

RECURSIVE ParseValue(_, _)
RECURSIVE ParseElems(_, _, _)
RECURSIVE ParseMembers(_, _, _)
ParseValue(ts, i) ==
    IF i > Len(ts) THEN ParseFail
    ELSE LET tk == ts[i] IN
         CASE tk \in DOMAIN IntTok -> ParseOk(J_int(IntTok[tk]), i + 1)
           [] tk \in DOMAIN StrTok -> ParseOk(J_str(StrTok[tk]), i + 1)
           [] tk = "null" -> ParseOk(J_null, i + 1)
           [] tk = "[" -> IF i + 1 <= Len(ts) /\ ts[i + 1] = "]"
                          THEN ParseOk(J_arr(<<>>), i + 2)
                          ELSE ParseElems(ts, i + 1, <<>>)
           [] tk = "{" -> IF i + 1 <= Len(ts) /\ ts[i + 1] = "}"
                          THEN ParseOk(J_obj(<<>>, <<>>), i + 2)
                          ELSE ParseMembers(ts, i + 1, J_obj(<<>>, <<>>))
           [] OTHER -> ParseFail

ParseElems(ts, i, acc) ==
    LET r == ParseValue(ts, i) IN
    IF ~r.ok \/ r.i > Len(ts) THEN ParseFail
    ELSE CASE ts[r.i] = "," -> ParseElems(ts, r.i + 1, Append(acc, r.v))
           [] ts[r.i] = "]" -> ParseOk(J_arr(Append(acc, r.v)), r.i + 1)
           [] OTHER -> ParseFail

ParseMembers(ts, i, acc) ==
    IF i + 1 > Len(ts) \/ ts[i] \notin DOMAIN StrTok \/ ts[i + 1] # ":" THEN ParseFail
    ELSE LET r == ParseValue(ts, i + 2) IN
         IF ~r.ok \/ r.i > Len(ts) THEN ParseFail
         ELSE CASE ts[r.i] = "," -> ParseMembers(ts, r.i + 1, ObjPut(acc, StrTok[ts[i]], r.v))
                [] ts[r.i] = "}" -> ParseOk(ObjPut(acc, StrTok[ts[i]], r.v), r.i + 1)
                [] OTHER -> ParseFail

\* json.loads: exactly one value, nothing after it.
json_loads(ts) ==
    LET r == ParseValue(ts, 1) IN
    IF r.ok /\ r.i = Len(ts) + 1 THEN r ELSE ParseFail

(***************************************************************************)
(* Response normalisation of call_vlm.  A response is a sequence of lines, *)
(* a line a sequence of tokens; line breaks are JSON whitespace.           *)
(***************************************************************************)
RECURSIVE LStrip(_)
LStrip(lines) ==
    IF lines # <<>> /\ lines[1] = <<>> THEN LStrip(Tail(lines)) ELSE lines

RECURSIVE RStrip(_)
RStrip(lines) ==
    IF lines # <<>> /\ lines[Len(lines)] = <<>>
    THEN RStrip(SubSeq(lines, 1, Len(lines) - 1)) ELSE lines

\* .strip()
Strip(lines) == RStrip(LStrip(lines))

\* result_text.startswith(three backquotes)
StartsWithFence(lines) ==
    lines # <<>> /\ lines[1] # <<>> /\ lines[1][1] \in FenceTok

RECURSIVE JoinLines(_)
JoinLines(lines) ==
    IF lines = <<>> THEN <<>> ELSE lines[1] \o JoinLines(Tail(lines))

\* lines[1:-1] when the text starts with a fence, the text itself otherwise.
StripFence(lines) ==
    IF StartsWithFence(lines) THEN SubSeq(lines, 2, Len(lines) - 1) ELSE lines

\* strip(), fence removal and json.loads of a raw response.
ParseResponse(raw) == json_loads(JoinLines(StripFence(Strip(raw))))

(***************************************************************************)
(* The label taxonomy of config.py and the coarse mapping of step 5.       *)
(***************************************************************************)
BILL_OF_LADING_LABELS ==
    LET name == <<"shipper", "consignee", "notify_party", "port_of_loading",
                  "port_of_discharge", "port_of_delivery", "place_of_delivery",
                  "place_of_receipt", "vessel", "voyage", "vessel_voyage",
                  "container_no", "seal_no", "description_of_goods", "marks_numbers",
                  "package", "weight", "volume", "bl_no", "freight", "date", "time",
                  "header", "footer", "company_logo", "rate", "total", "other",
                  "abandon">>
        category == <<"role", "role", "role", "geography", "geography", "geography",
                      "geography", "geography", "transport", "transport", "transport",
                      "transport", "transport", "cargo", "cargo", "cargo", "cargo",
                      "cargo", "number", "number", "number", "number", "layout",
                      "layout", "layout", "rate", "rate", "other", "other">>
    IN [i \in 0..28 |-> [name |-> name[i + 1], category |-> category[i + 1]]]

\* The id-to-name table step 5 imports from config.
LABEL_ID_TO_NAME == [i \in DOMAIN BILL_OF_LADING_LABELS |-> BILL_OF_LADING_LABELS[i].name]

FUNSD_LABEL_MAPPING ==
    ("role" :> "answer") @@ ("geography" :> "answer") @@ ("transport" :> "answer")
    @@ ("cargo" :> "answer") @@ ("number" :> "answer") @@ ("layout" :> "header")
    @@ ("rate" :> "answer") @@ ("other" :> "other")

\* classifications.get(str(group_idx), 27)
DefaultLabelId == 27

(***************************************************************************)
(* Texts are sequences of characters.                                      *)
(***************************************************************************)
\* " ".join(texts)
RECURSIVE JoinTexts(_)
JoinTexts(texts) ==
    IF texts = <<>> THEN <<>>
    ELSE IF Len(texts) = 1 THEN texts[1]
    ELSE texts[1] \o <<" ">> \o JoinTexts(Tail(texts))

\* text.split(): the maximal runs of non-blank characters, in order.
RECURSIVE SplitFrom(_, _, _)
SplitFrom(text, cur, acc) ==
    IF text = <<>> THEN (IF cur = <<>> THEN acc ELSE Append(acc, cur))
    ELSE IF text[1] = " "
         THEN SplitFrom(Tail(text), <<>>, IF cur = <<>> THEN acc ELSE Append(acc, cur))
         ELSE SplitFrom(Tail(text), Append(cur, text[1]), acc)

\* text.split(None, 1): the first word and the rest of the text.
Split_first(text) ==
    LET parts == SplitFrom(text, <<>>, <<>>)
    IN IF Len(parts) <= 2 THEN parts ELSE <<parts[1], JoinTexts(Tail(parts))>>

Split(text) == SplitFrom(text, <<>>, <<>>)

(***************************************************************************)
(* Step 2: OCRProcessor.ocr_image.  The backend returns lines, each a      *)
(* polygon of four points and a text.                                      *)
(***************************************************************************)
\* ocr_image numbering the fragments from one.
ocr_image_from_one(result) ==
    [idx \in 1..Len(result) |->
        LET box == result[idx].polygon
            xs == [p \in 1..Len(box) |-> box[p][1]]
            ys == [p \in 1..Len(box) |-> box[p][2]]
        IN [id |-> idx,
            text |-> result[idx].text,
            box |-> <<PyInt(SeqMin(xs), 2), PyInt(SeqMin(ys), 2),
                      PyInt(SeqMax(xs), 2), PyInt(SeqMax(ys), 2)>>,
            polygon |-> [p \in 1..Len(box) |-> <<PyInt(box[p][1], 2), PyInt(box[p][2], 2)>>]]]

\* ocr_image: the backend gives the points as floats, here in halves (a
\* coordinate c stands for c/2); int() truncates them.
ocr_image(result) ==
    [idx \in 1..Len(result) |->
        LET box == result[idx].polygon
            xs == [p \in 1..Len(box) |-> box[p][1]]
            ys == [p \in 1..Len(box) |-> box[p][2]]
        IN [id |-> idx - 1,
            text |-> result[idx].text,
            box |-> <<PyInt(SeqMin(xs), 2), PyInt(SeqMin(ys), 2),
                      PyInt(SeqMax(xs), 2), PyInt(SeqMax(ys), 2)>>,
            polygon |-> [p \in 1..Len(box) |-> <<PyInt(box[p][1], 2), PyInt(box[p][2], 2)>>]]]

(***************************************************************************)
(* Step 5: FUNSDMerger.                                                    *)
(***************************************************************************)
\* merge_boxes taking the box of the first member for the box of all.
merge_boxes_first(boxes) ==
    LET texts == [i \in 1..Len(boxes) |-> boxes[i].text]
    IN [text |-> JoinTexts(texts), box |-> boxes[1].box]

\* merge_boxes: the joined text and the union box of the members.
merge_boxes(boxes) ==
    LET texts == [i \in 1..Len(boxes) |-> boxes[i].text]
        all_boxes == [i \in 1..Len(boxes) |-> boxes[i].box]
        x_min == SeqMin([i \in 1..Len(boxes) |-> all_boxes[i][1]])
        y_min == SeqMin([i \in 1..Len(boxes) |-> all_boxes[i][2]])
        x_max == SeqMax([i \in 1..Len(boxes) |-> all_boxes[i][3]])
        y_max == SeqMax([i \in 1..Len(boxes) |-> all_boxes[i][4]])
    IN [text |-> JoinTexts(texts), box |-> <<x_min, y_min, x_max, y_max>>]

\* get_funsd_label with the layout labels taken for the questions of a form.
get_funsd_label_question(label_id) ==
    IF label_id.t = "int" /\ label_id.n \in DOMAIN BILL_OF_LADING_LABELS
    THEN (IF BILL_OF_LADING_LABELS[label_id.n].category = "layout" THEN "question"
          ELSE FUNSD_LABEL_MAPPING[BILL_OF_LADING_LABELS[label_id.n].category])
    ELSE "other"

\* get_funsd_label on an integer or None label id.
get_funsd_label(label_id) ==
    IF label_id.t = "int" /\ label_id.n \in DOMAIN BILL_OF_LADING_LABELS
    THEN FUNSD_LABEL_MAPPING[BILL_OF_LADING_LABELS[label_id.n].category]
    ELSE "other"

\* LABEL_ID_TO_NAME.get(label_id, "other")
bol_label_of(label_id) ==
    IF label_id.t = "int" /\ label_id.n \in DOMAIN LABEL_ID_TO_NAME
    THEN LABEL_ID_TO_NAME[label_id.n]
    ELSE "other"

\* int() of a double computed by split_text_to_words, whose exact value
\* is num/den.  With width = 0 every operand is exact.  Otherwise a value
\* that is no integer is far from one and truncates as the exact value
\* does, and a value that is an integer N may come out just below N.
FloatInt(num, den, width) ==
    IF width # 0 /\ num % den = 0 /\ (num \div den) \in fp_low
    THEN PyInt(num, den) - 1
    ELSE PyInt(num, den)

\* The loop of split_text_to_words: cur is the cursor current_x times
\* len(text).  The first cursor is the integer x1 itself.
RECURSIVE WordLoop(_, _, _, _, _, _, _)
WordLoop(parts, cur, width, len, y1, y2, first) ==
    IF parts = <<>> THEN <<>>
    ELSE LET part_width == Len(parts[1]) * width
             x_from == IF first THEN PyInt(cur, len) ELSE FloatInt(cur, len, width)
         IN <<[text |-> parts[1],
               box |-> <<x_from, y1, FloatInt(cur + part_width, len, width), y2>>]>>
            \o WordLoop(Tail(parts), cur + part_width + width, width, len, y1, y2, FALSE)

\* split_text_to_words dividing the width by the number of words.
split_text_to_words_wide(text, box) ==
    LET parts == Split(text)
        len == Max2(Len(parts), 1)
    IN IF parts = <<>> THEN <<[text |-> <<>>, box |-> box]>>
       ELSE WordLoop(parts, box[1] * len, box[3] - box[1], len, box[2], box[4], TRUE)

split_text_to_words(text, box) ==
    LET x1 == box[1]
        y1 == box[2]
        x2 == box[3]
        y2 == box[4]
        width == x2 - x1
        parts == Split(text)
        len == Max2(Len(text), 1)
    IN IF parts = <<>> THEN <<[text |-> <<>>, box |-> box]>>
       ELSE WordLoop(parts, x1 * len, width, len, y1, y2, TRUE)

\* Iteration over a JSON value (for ... in v): a list yields its items, a
\* dict its keys, a str its characters; an int or None raises TypeError.
Iter(v) ==
    CASE v.t = "arr" -> [ok |-> TRUE, items |-> v.a]
      [] v.t = "obj" -> [ok |-> TRUE, items |-> [i \in 1..Len(v.k) |-> J_str(v.k[i])]]
      [] v.t = "str" -> [ok |-> TRUE,
                         items |-> [i \in 1..Len(Chars[v.s]) |-> J_str(Chars[v.s][i])]]
      [] OTHER -> [ok |-> FALSE, items |-> <<>>]

\* len(v) is defined for list, dict and str.
HasLen(v) == v.t \in {"arr", "obj", "str"}

\* A list or a dict is unhashable: "x in a_dict" raises TypeError on it.
Hashable(v) == v.t \notin {"arr", "obj"}

\* text_boxes = {box["id"]: box for box in ocr_data["text_boxes"]}
text_boxes_of(ocr_data) ==
    LET tb == ocr_data.text_boxes
        ids == {tb[i].id : i \in 1..Len(tb)}
        pos(id) == CHOOSE i \in 1..Len(tb) :
                        tb[i].id = id /\ \A j \in 1..Len(tb) : tb[j].id = id => j <= i
    IN [id \in ids |-> tb[pos(id)]]

\* [text_boxes[bid] for bid in items if bid in text_boxes]
RECURSIVE Resolve(_, _)
Resolve(text_boxes, items) ==
    IF items = <<>> THEN <<>>
    ELSE (IF items[1].t = "int" /\ items[1].n \in DOMAIN text_boxes
          THEN <<text_boxes[items[1].n]>> ELSE <<>>)
         \o Resolve(text_boxes, Tail(items))

\* The group's text boxes read as text_boxes[bid]: an id that is no key raises.
group_boxes_strict(text_boxes, group) ==
    LET it == Iter(group) IN
    IF ~it.ok \/ \E i \in 1..Len(it.items) :
                    ~(it.items[i].t = "int" /\ it.items[i].n \in DOMAIN text_boxes)
    THEN [ok |-> FALSE, boxes |-> <<>>]
    ELSE [ok |-> TRUE, boxes |-> Resolve(text_boxes, it.items)]

\* The group's text boxes (line 193); ok is FALSE when the comprehension raises.
group_boxes(text_boxes, group) ==
    LET it == Iter(group) IN
    IF ~it.ok \/ \E i \in 1..Len(it.items) : ~Hashable(it.items[i])
    THEN [ok |-> FALSE, boxes |-> <<>>]
    ELSE [ok |-> TRUE, boxes |-> Resolve(text_boxes, it.items)]

\* dict.get(key, default) on a JSON object.
ObjGet(o, key, default) ==
    IF \E j \in 1..Len(o.k) : o.k[j] = key
    THEN o.a[CHOOSE j \in 1..Len(o.k) : o.k[j] = key]
    ELSE default

\* The label id of the group at group_idx with label 0 for a missing key.
label_id_of_first(classifications, group_idx) ==
    IF classifications.t # "obj" THEN [ok |-> FALSE, label_id |-> J_null]
    ELSE LET raw == ObjGet(classifications, str(group_idx), J_int(0))
         IN CASE raw.t = "str" ->
                    IF raw.s \in DOMAIN IntOfStr
                    THEN [ok |-> TRUE, label_id |-> J_int(IntOfStr[raw.s])]
                    ELSE [ok |-> FALSE, label_id |-> J_null]
              [] ~Hashable(raw) -> [ok |-> FALSE, label_id |-> J_null]
              [] OTHER -> [ok |-> TRUE, label_id |-> raw]

\* Lines 204-209: the label id of the group at group_idx; ok is FALSE when
\* classifications has no get, int() raises or the id is unhashable.
label_id_of(classifications, group_idx) ==
    IF classifications.t # "obj" THEN [ok |-> FALSE, label_id |-> J_null]
    ELSE LET raw == ObjGet(classifications, str(group_idx), J_int(DefaultLabelId))
         IN CASE raw.t = "str" ->
                    IF raw.s \in DOMAIN IntOfStr
                    THEN [ok |-> TRUE, label_id |-> J_int(IntOfStr[raw.s])]
                    ELSE [ok |-> FALSE, label_id |-> J_null]
              [] ~Hashable(raw) -> [ok |-> FALSE, label_id |-> J_null]
              [] OTHER -> [ok |-> TRUE, label_id |-> raw]

\* Lines 212-221: the entity record.
entity_of(entity_id, merged, label_id) ==
    [id |-> entity_id,
     text |-> merged.text,
     box |-> merged.box,
     label |-> get_funsd_label(label_id),
     bol_label |-> bol_label_of(label_id),
     bol_label_id |-> label_id,
     words |-> split_text_to_words(merged.text, merged.box),
     linking |-> <<>>]

\* The loop of generate_funsd numbering an entity by the index of its group.
RECURSIVE FormLoop_gaps(_, _, _, _, _, _)
FormLoop_gaps(text_boxes, groups, classifications, group_idx, entity_id, form) ==
    IF group_idx >= Len(groups) THEN [ok |-> TRUE, form |-> form]
    ELSE LET gb == group_boxes(text_boxes, groups[group_idx + 1])
             lab == label_id_of(classifications, group_idx)
         IN IF ~gb.ok THEN [ok |-> FALSE, form |-> <<>>]
            ELSE IF gb.boxes = <<>>
            THEN FormLoop_gaps(text_boxes, groups, classifications, group_idx + 1,
                          entity_id, form)
            ELSE IF ~lab.ok THEN [ok |-> FALSE, form |-> <<>>]
            ELSE FormLoop_gaps(text_boxes, groups, classifications, group_idx + 1,
                          entity_id + 1,
                          Append(form, entity_of(group_idx, merge_boxes(gb.boxes),
                                                 lab.label_id)))

\* The loop of generate_funsd looking the label up under the entity id.
RECURSIVE FormLoop_compact(_, _, _, _, _, _)
FormLoop_compact(text_boxes, groups, classifications, group_idx, entity_id, form) ==
    IF group_idx >= Len(groups) THEN [ok |-> TRUE, form |-> form]
    ELSE LET gb == group_boxes(text_boxes, groups[group_idx + 1])
             lab == label_id_of(classifications, entity_id)
         IN IF ~gb.ok THEN [ok |-> FALSE, form |-> <<>>]
            ELSE IF gb.boxes = <<>>
            THEN FormLoop_compact(text_boxes, groups, classifications, group_idx + 1,
                          entity_id, form)
            ELSE IF ~lab.ok THEN [ok |-> FALSE, form |-> <<>>]
            ELSE FormLoop_compact(text_boxes, groups, classifications, group_idx + 1,
                          entity_id + 1,
                          Append(form, entity_of(entity_id, merge_boxes(gb.boxes),
                                                 lab.label_id)))

\* The loop of generate_funsd over enumerate(groups), lines 188-224.
RECURSIVE FormLoop(_, _, _, _, _, _)
FormLoop(text_boxes, groups, classifications, group_idx, entity_id, form) ==
    IF group_idx >= Len(groups) THEN [ok |-> TRUE, form |-> form]
    ELSE LET gb == group_boxes(text_boxes, groups[group_idx + 1])
             lab == label_id_of(classifications, group_idx)
         IN IF ~gb.ok THEN [ok |-> FALSE, form |-> <<>>]
            ELSE IF gb.boxes = <<>>
            THEN FormLoop(text_boxes, groups, classifications, group_idx + 1,
                          entity_id, form)
            ELSE IF ~lab.ok THEN [ok |-> FALSE, form |-> <<>>]
            ELSE FormLoop(text_boxes, groups, classifications, group_idx + 1,
                          entity_id + 1,
                          Append(form, entity_of(entity_id, merge_boxes(gb.boxes),
                                                 lab.label_id)))

\* generate_funsd; ok is FALSE when an exception leaves it.
generate_funsd(image_name, ocr_data, grouping_data, classification_data) ==
    LET it == Iter(grouping_data.groups)
        r == FormLoop(text_boxes_of(ocr_data), it.items,
                      classification_data.classifications, 0, 0, <<>>)
    IN IF ~it.ok \/ ~r.ok THEN [ok |-> FALSE, data |-> [image |-> image_name, form |-> <<>>]]
       ELSE [ok |-> TRUE, data |-> [image |-> image_name, form |-> r.form]]

(***************************************************************************)
(* The input documents and the pages they are rasterised to.               *)
(***************************************************************************)
\* DEFAULT_CONFIG of config.py (api_key: whether a key is loaded), with the
\* import flags HAS_PADDLEOCR of step 2 and HAS_OPENAI of steps 3 and 4.
DEFAULT_CONFIG ==
    [api_key |-> TRUE, batch_size |-> 5, interval |-> 15, only_first_page |-> TRUE,
     HAS_PADDLEOCR |-> TRUE, HAS_OPENAI |-> TRUE]

\* The default configuration and those that differ from it in one setting.
Configs ==
    {DEFAULT_CONFIG,
     [DEFAULT_CONFIG EXCEPT !.HAS_PADDLEOCR = FALSE],
     [DEFAULT_CONFIG EXCEPT !.HAS_OPENAI = FALSE],
     [DEFAULT_CONFIG EXCEPT !.api_key = FALSE],
     [DEFAULT_CONFIG EXCEPT !.batch_size = 1],
     [DEFAULT_CONFIG EXCEPT !.only_first_page = FALSE]}

\* _init_ocr and _init_client return without raising.
OcrAvailable == config.HAS_PADDLEOCR

VlmAvailable == config.HAS_OPENAI /\ config.api_key

\* documents.sort(): the scanned documents in sorted order.
Documents == <<[stem |-> "a", ext |-> ".pdf"], [stem |-> "b", ext |-> ".pdf"]>>

\* f"{doc_path.stem}_{page_name}.png" without its suffix, for page_1.
PageStem == ("a" :> "a_page_1") @@ ("b" :> "b_page_1")

PageNames == {PageStem[Documents[d].stem] : d \in 1..Len(Documents)}

\* doc.page_count of the documents: one page each, or document b without pages.
OnePageEach == ("a" :> 1) @@ ("b" :> 1)

PageCounts == {OnePageEach, ("a" :> 1) @@ ("b" :> 0)}

\* The rank of a page name in sorted order.
PageRank == ("a_page_1" :> 1) @@ ("b_page_1" :> 2)

\* The polygon of the rectangle with the given integer corners, in halves.
Rect(x1, y1, x2, y2) ==
    <<<<2 * x1, 2 * y1>>, <<2 * x2, 2 * y1>>, <<2 * x2, 2 * y2>>, <<2 * x1, 2 * y2>>>>

\* What the OCR backend returns for the image of a document: document a is
\* the page of the concrete scenario, document b a blank page; a scanned
\* image carries the lines the backend finds in it.
OcrBackend(image) ==
    IF image.doc = "a"
    THEN <<[polygon |-> Rect(0, 0, 50, 10), text |-> <<"S", "h", "i", "p", "p", "e", "r">>],
           [polygon |-> Rect(0, 12, 80, 22), text |-> <<"A", "B", "C", " ", "C", "o", ".">>]>>
    ELSE IF image.doc = "b" THEN <<>>
    ELSE image.lines

NoFiles == [p \in PageNames |-> <<>>]

Exists(fs, p) == fs[p] # <<>>

\* An image file under data/02_images: directly in it or in a
\* sub-directory, with its suffix.  Step 1 saves .png files directly in it.
ImageKinds == [at_top : BOOLEAN, suffix : {".png", ".jpeg", ".bmp", ".gif"}]
StepOneImages == [p \in PageNames |-> [at_top |-> TRUE, suffix |-> ".png"]]

\* Step 2 globs five suffixes at every depth.
scan_images(p) ==
    /\ Exists(fs_images, p)
    /\ image_file[p].suffix \in {".png", ".jpg", ".jpeg", ".bmp", ".tiff"}

\* Steps 3, 4 and 5 look for image_dir / (stem + ext) with three suffixes.
image_path(p) ==
    /\ Exists(fs_images, p)
    /\ image_file[p].at_top
    /\ image_file[p].suffix \in {".png", ".jpg", ".jpeg"}

ZeroStats == [total |-> 0, success |-> 0, failed |-> 0, count |-> 0]

StepNums == 1..5

NoCall == [stage |-> 0, page |-> "", raw |-> <<>>, called |-> FALSE, io_error |-> FALSE,
           ok |-> FALSE, wrote |-> FALSE]

Call(s, p, raw, called, io_error, ok, wrote) ==
    [stage |-> s, page |-> p, raw |-> raw, called |-> called, io_error |-> io_error,
     ok |-> ok, wrote |-> wrote]

\* len() of a list, dict or str.
PyLen(v) ==
    CASE v.t = "arr" -> Len(v.a)
      [] v.t = "obj" -> Len(v.k)
      [] OTHER -> Len(Chars[v.s])

\* The position of run() after a process_single call: the loop goes on
\* while tasks are left, then step 5 writes dataset_info, the others return.
AfterTask(rest) ==
    IF rest # {} THEN "loop" ELSE IF stage = 5 THEN "finish" ELSE "done"

\* The same in steps 3 and 4, where task i of the enumeration is followed by
\* a sleep when i % batch_size == 0 and i < len(tasks).
AfterBatchTask_always(rest) ==
    LET i == stats.total - Cardinality(rest)
    IN IF i % config.batch_size = 0 THEN "sleep" ELSE AfterTask(rest)

AfterBatchTask(rest) ==
    LET i == stats.total - Cardinality(rest)
    IN IF i % config.batch_size = 0 /\ i < stats.total THEN "sleep" ELSE AfterTask(rest)

Count(ok, n) ==
    [stats EXCEPT !.success = @ + (IF ok THEN 1 ELSE 0),
                  !.failed = @ + (IF ok THEN 0 ELSE 1),
                  !.count = @ + (IF ok THEN n ELSE 0)]

Wrote(s, p) == [writes EXCEPT ![s][p] = @ + 1]

fsVars == <<fs_images, fs_ocr, fs_grouping, fs_classification, fs_funsd, dataset_info>>

envVars == <<responses, visualize, fp_low, config, page_count, image_file>>

\* The state of the runner, which the stages and the scripts leave alone.
toolVars == <<runner, launched, corrector, rasterizer, converter, input_dir, image_dir>>

\* The same without the runner.
sideVars == <<corrector, rasterizer, converter, input_dir, image_dir>>

\* The state of the annotation scripts, which the pipeline leaves alone.
annoVars == <<script, folder, answers, txt0, txt, txt_writes, img_paths, main, request,
              client_of, batch_futures>>

(***************************************************************************)
(* run_pipeline.py: the steps run in order, each in a process of its own.  *)
(***************************************************************************)
RunStep ==
    /\ \/ stage = 0
       \/ stage \in 1..4 /\ pc = "done"
    /\ stage' = stage + 1
    /\ pc' = "start"
    /\ stats' = ZeroStats
    /\ tasks' = {}
    /\ slept' = 0
    /\ UNCHANGED annoVars
    /\ UNCHANGED toolVars
    /\ UNCHANGED <<fsVars, run, calls, writes, snapshot, last, envVars>>

\* The pipeline is started again over the same inputs and artifacts.
NextRun ==
    /\ stage = 5 /\ pc = "done"
    /\ run < MaxRuns
    /\ run' = run + 1
    /\ stage' = 0
    /\ pc' = "idle"
    /\ calls' = [ocr |-> 0, vlm |-> 0]
    /\ snapshot' = fs_funsd
    /\ stats' = ZeroStats
    /\ tasks' = {}
    /\ last' = NoCall
    /\ slept' = 0
    /\ UNCHANGED annoVars
    /\ UNCHANGED toolVars
    /\ UNCHANGED <<fsVars, writes, envVars>>

\* scan_*: tasks and stats["total"]; run() returns at once when none is found.
Scanned(found) ==
    /\ pc = "start"
    /\ tasks' = found
    /\ stats' = [stats EXCEPT !.total = Cardinality(found)]
    /\ pc' = IF found = {} THEN "done" ELSE "loop"
    /\ UNCHANGED annoVars
    /\ UNCHANGED toolVars
    /\ UNCHANGED <<fsVars, stage, run, calls, writes, snapshot, last, envVars, slept>>

\* A sorted scan is processed in sorted order, a glob in directory order.
NextSorted(p) == p \in tasks /\ \A q \in tasks : PageRank[p] <= PageRank[q]

(***************************************************************************)
(* Step 1: DocumentToImageConverter.                                       *)
(***************************************************************************)
Scan1 ==
    /\ stage = 1
    /\ Scanned(PageNames)

\* process_single: the conversion raises (load_page(0) of a document without
\* pages does), or there are no images and it returns with neither counter
\* changed, or the page image is saved.
Process1(p, fails) ==
    /\ stage = 1 /\ pc = "loop" /\ NextSorted(p)
    /\ LET d == CHOOSE d \in 1..Len(Documents) : PageStem[Documents[d].stem] = p
           pages == page_count[Documents[d].stem]
       IN
       IF fails \/ (config.only_first_page /\ pages = 0)
       THEN /\ stats' = Count(FALSE, 0)
            /\ last' = Call(1, p, <<>>, FALSE, TRUE, FALSE, FALSE)
            /\ UNCHANGED <<fs_images, writes>>
       ELSE IF pages = 0
       THEN /\ last' = Call(1, p, <<>>, FALSE, FALSE, FALSE, FALSE)
            /\ UNCHANGED <<fs_images, writes, stats>>
       ELSE /\ fs_images' = [fs_images EXCEPT ![p] = <<[doc |-> Documents[d].stem]>>]
            /\ writes' = Wrote(1, p)
            /\ stats' = Count(TRUE, 1)
            /\ last' = Call(1, p, <<>>, FALSE, FALSE, TRUE, TRUE)
    /\ tasks' = tasks \ {p}
    /\ pc' = AfterTask(tasks \ {p})
    /\ UNCHANGED annoVars
    /\ UNCHANGED toolVars
    /\ UNCHANGED <<fs_ocr, fs_grouping, fs_classification, fs_funsd, dataset_info,
                   stage, run, calls, snapshot, envVars, slept>>

(***************************************************************************)
(* Step 2: OCRProcessor.                                                   *)
(***************************************************************************)
Scan2 ==
    /\ stage = 2
    /\ Scanned({p \in PageNames : scan_images(p)})

\* process_single: ocr_image raises, or the artifact is written; with -v
\* the drawing that follows the write may raise as well.
Process2(p, fails, vis_fails) ==
    /\ stage = 2 /\ pc = "loop" /\ NextSorted(p)
    /\ vis_fails => visualize /\ ~fails
    /\ ~OcrAvailable => fails
    /\ calls' = [calls EXCEPT !.ocr = @ + (IF OcrAvailable THEN 1 ELSE 0)]
    /\ IF fails
       THEN /\ stats' = Count(FALSE, 0)
            /\ last' = Call(2, p, <<>>, OcrAvailable, TRUE, FALSE, FALSE)
            /\ UNCHANGED <<fs_ocr, writes>>
       ELSE LET ocr_results == ocr_image(OcrBackend(fs_images[p][1])) IN
            /\ fs_ocr' = [fs_ocr EXCEPT ![p] = <<[image_name |-> p,
                                                   text_boxes |-> ocr_results,
                                                   total_boxes |-> Len(ocr_results)]>>]
            /\ writes' = Wrote(2, p)
            /\ stats' = Count(~vis_fails, Len(ocr_results))
            /\ last' = Call(2, p, <<>>, TRUE, vis_fails, ~vis_fails, TRUE)
    /\ tasks' = tasks \ {p}
    /\ pc' = AfterTask(tasks \ {p})
    /\ UNCHANGED annoVars
    /\ UNCHANGED toolVars
    /\ UNCHANGED <<fs_images, fs_grouping, fs_classification, fs_funsd, dataset_info,
                   stage, run, snapshot, envVars, slept>>

(***************************************************************************)
(* Step 3: VLMGroupingProcessor.                                           *)
(***************************************************************************)
Scan3_any ==
    /\ stage = 3
    /\ Scanned({p \in PageNames : image_path(p) /\ ~Exists(fs_grouping, p)})

Scan3 ==
    /\ stage = 3
    /\ Scanned({p \in PageNames : /\ Exists(fs_ocr, p)
                                  /\ image_path(p)
                                  /\ ~Exists(fs_grouping, p)})

\* What process_single does with the parsed response: len(groups) must be
\* defined before the artifact is written.
grouping_output(p, ocr_data, r) ==
    IF r.ok /\ HasLen(r.v)
    THEN <<[image_name |-> p, groups |-> r.v, total_groups |-> PyLen(r.v),
            total_boxes |-> ocr_data.total_boxes]>>
    ELSE <<>>

\* process_single: the API call raises (api_fails), or the response raw is
\* normalised and parsed and the artifact written.
Process3(p, api_fails, raw) ==
    /\ stage = 3 /\ pc = "loop" /\ p \in tasks
    /\ api_fails => raw = <<>>
    /\ ~VlmAvailable => api_fails
    /\ calls' = [calls EXCEPT !.vlm = @ + (IF VlmAvailable THEN 1 ELSE 0)]
    /\ LET out == IF api_fails THEN <<>>
                  ELSE grouping_output(p, fs_ocr[p][1], ParseResponse(raw)) IN
       IF out = <<>>
       THEN /\ stats' = Count(FALSE, 0)
            /\ last' = Call(3, p, raw, VlmAvailable, api_fails, FALSE, FALSE)
            /\ UNCHANGED <<fs_grouping, writes>>
       ELSE /\ fs_grouping' = [fs_grouping EXCEPT ![p] = out]
            /\ writes' = Wrote(3, p)
            /\ stats' = Count(TRUE, out[1].total_groups)
            /\ last' = Call(3, p, raw, TRUE, FALSE, TRUE, TRUE)
    /\ tasks' = tasks \ {p}
    /\ pc' = AfterBatchTask(tasks \ {p})
    /\ UNCHANGED annoVars
    /\ UNCHANGED toolVars
    /\ UNCHANGED <<fs_images, fs_ocr, fs_classification, fs_funsd, dataset_info,
                   stage, run, snapshot, envVars, slept>>

(***************************************************************************)
(* Step 4: VLMClassificationProcessor.                                     *)
(***************************************************************************)
Scan4 ==
    /\ stage = 4
    /\ Scanned({p \in PageNames : /\ Exists(fs_grouping, p)
                                  /\ image_path(p)
                                  /\ Exists(fs_ocr, p)
                                  /\ ~Exists(fs_classification, p)})

\* Lines 156-168 of call_vlm: the group texts of the prompt are built
\* before the request is sent; a group that cannot be iterated or holds
\* an unhashable member raises.
prompt_ok(ocr_data, grouping_data) ==
    LET it == Iter(grouping_data.groups) IN
    /\ it.ok
    /\ \A i \in 1..Len(it.items) : group_boxes(text_boxes_of(ocr_data), it.items[i]).ok

\* process_single: the prompt cannot be built (no request is sent), the
\* API call raises, or the response is parsed and written; the log line
\* after the write takes len(classifications).
Process4(p, api_fails, raw) ==
    /\ stage = 4 /\ pc = "loop" /\ p \in tasks
    /\ api_fails => raw = <<>>
    /\ LET sent == VlmAvailable /\ prompt_ok(fs_ocr[p][1], fs_grouping[p][1])
           r == ParseResponse(raw)
           wrote == sent /\ ~api_fails /\ r.ok
           ok == wrote /\ HasLen(r.v)
       IN /\ ~sent => api_fails
          /\ calls' = [calls EXCEPT !.vlm = @ + (IF sent THEN 1 ELSE 0)]
          /\ IF wrote
             THEN /\ fs_classification' =
                        [fs_classification EXCEPT ![p] = <<[image_name |-> p,
                                                            classifications |-> r.v]>>]
                  /\ writes' = Wrote(4, p)
             ELSE UNCHANGED <<fs_classification, writes>>
          /\ stats' = Count(ok, 0)
          /\ last' = Call(4, p, raw, sent, ~wrote, ok, wrote)
    /\ tasks' = tasks \ {p}
    /\ pc' = AfterBatchTask(tasks \ {p})
    /\ UNCHANGED annoVars
    /\ UNCHANGED toolVars
    /\ UNCHANGED <<fs_images, fs_ocr, fs_grouping, fs_funsd, dataset_info,
                   stage, run, snapshot, envVars, slept>>

\* time.sleep(self.interval) between the batches of steps 3 and 4 returns.
Sleep ==
    /\ stage \in {3, 4} /\ pc = "sleep"
    /\ slept' = slept + config.interval
    /\ pc' = "loop"
    /\ UNCHANGED annoVars
    /\ UNCHANGED toolVars
    /\ UNCHANGED <<fsVars, stage, tasks, stats, run, calls, writes, snapshot, last, envVars>>

(***************************************************************************)
(* Step 5: FUNSDMerger.                                                    *)
(***************************************************************************)
Scan5 ==
    /\ stage = 5
    /\ Scanned({p \in PageNames : /\ Exists(fs_classification, p)
                                  /\ image_path(p)
                                  /\ Exists(fs_ocr, p)
                                  /\ Exists(fs_grouping, p)})

\* process_single: reading an input or the image raises (io_fails), or
\* generate_funsd raises, or the annotation is written; with -v the
\* drawing that follows the write may raise as well.
Process5(p, io_fails, vis_fails) ==
    /\ stage = 5 /\ pc = "loop" /\ p \in tasks
    /\ LET g == generate_funsd(p, fs_ocr[p][1], fs_grouping[p][1], fs_classification[p][1])
           wrote == ~io_fails /\ g.ok
           ok == wrote /\ ~vis_fails
       IN /\ vis_fails => visualize /\ wrote
          /\ IF wrote
             THEN /\ fs_funsd' = [fs_funsd EXCEPT ![p] = <<g.data>>]
                  /\ writes' = Wrote(5, p)
             ELSE UNCHANGED <<fs_funsd, writes>>
          /\ stats' = Count(ok, Len(g.data.form))
          /\ last' = Call(5, p, <<>>, FALSE, io_fails \/ vis_fails, ok, wrote)
    /\ tasks' = tasks \ {p}
    /\ pc' = AfterTask(tasks \ {p})
    /\ UNCHANGED annoVars
    /\ UNCHANGED toolVars
    /\ UNCHANGED <<fs_images, fs_ocr, fs_grouping, fs_classification, dataset_info,
                   stage, run, calls, snapshot, envVars, slept>>

\* generate_dataset_info, after the loop of run().
Finish5 ==
    /\ stage = 5 /\ pc = "finish"
    /\ dataset_info' = <<[total_images |-> stats.success, total_entities |-> stats.count]>>
    /\ pc' = "done"
    /\ UNCHANGED annoVars
    /\ UNCHANGED toolVars
    /\ UNCHANGED <<fs_images, fs_ocr, fs_grouping, fs_classification, fs_funsd,
                   stage, tasks, stats, run, calls, writes, snapshot, last, envVars, slept>>

(***************************************************************************)
(* Raw responses of the VLM backend.                                       *)
(***************************************************************************)
Fenced(lines) == <<<<"FENCEjson">>>> \o lines \o <<<<"FENCE">>>>

P_pair == <<"[", "[", "0", ",", "1", "]", "]">>

P_two == <<"[", "[", "0", "]", ",", "[", "1", "]", "]">>

P_overlap == <<"[", "[", "0", "]", ",", "[", "0", ",", "1", "]", "]">>

P_missing == <<"[", "[", "2", "]", ",", "[", "1", "]", "]">>

P_none == <<"[", "[", "2", "]", "]">>

P_empty == <<"[", "]">>

P_obj == <<"{", "\"0\"", ":", "[", "0", "]", "}">>

P_flat == <<"[", "0", ",", "1", "]">>

P_strs == <<"[", "[", "\"x\"", "]", "]">>

P_nested == <<"[", "[", "[", "0", "]", "]", "]">>

P_scalar == <<"1">>

P_string == <<"\"x\"">>

P_null == <<"null">>

P_prose == <<"Here", "are", "the", "groups">>

GroupingPayloads ==
    {P_pair, P_two, P_overlap, P_missing, P_none, P_empty, P_obj, P_flat, P_strs,
     P_nested, P_scalar, P_string, P_null, P_prose}

\* Every payload as one bare line, and the fence variants of some.
GroupingResponses ==
    {<<pl>> : pl \in GroupingPayloads}
    \cup {Fenced(<<pl>>) : pl \in {P_pair, P_obj, P_prose}}
    \cup {<<<<>>>> \o Fenced(<<P_two>>) \o <<<<>>>>,
          Fenced(<<<<"[", "[", "0", ",">>, <<"1", "]", "]">>>>),
          <<<<"[", "[", "0", ",">>, <<"1", "]", "]">>>>,
          <<<<"FENCEjson">>, P_pair>>,
          <<P_pair, <<"FENCE">>>>,
          <<<<"FENCE">>>>,
          <<>>}

C_first == <<"{", "\"0\"", ":", "0", "}">>

C_both == <<"{", "\"0\"", ":", "22", ",", "\"1\"", ":", "0", "}">>

C_second == <<"{", "\"1\"", ":", "22", "}">>

C_text == <<"{", "\"0\"", ":", "\"22\"", "}">>

C_word == <<"{", "\"0\"", ":", "\"x\"", "}">>

C_beyond == <<"{", "\"3\"", ":", "0", ",", "\"00\"", ":", "22", "}">>

C_large == <<"{", "\"0\"", ":", "99", "}">>

C_none == <<"{", "\"0\"", ":", "null", "}">>

C_listed == <<"{", "\"0\"", ":", "[", "0", "]", "}">>

C_empty == <<"{", "}">>

C_all == <<"{", "\"0\"", ":", "0", ",", "\"1\"", ":", "22", ",", "\"2\"", ":", "28", "}">>

C_array == <<"[", "0", "]">>

C_scalar == <<"1">>

C_prose == <<"The", "labels", "are">>

ClassificationPayloads ==
    {C_first, C_both, C_second, C_text, C_word, C_beyond, C_large, C_none, C_listed,
     C_empty, C_all, C_array, C_scalar, C_prose}

ClassificationResponses ==
    {<<pl>> : pl \in ClassificationPayloads}
    \cup {Fenced(<<C_first>>), <<<<"FENCEjson">>, C_first>>}

(***************************************************************************)
(* vlm_anno_bol.py and vlm_anno2_bol.py: the scripts that annotate the     *)
(* images of a directory through a pool of worker threads.                 *)
(***************************************************************************)
ImgNames == 1..MaxImages

\* The texts of a response or of a txt file, as sequences of lines.
OneLine == <<"x">>

TwoLines == <<"x", "y">>

\* response.text of the model: None or empty, or a text.
AnswerTexts == {<<>>, OneLine, TwoLines}

\* A txt file: absent, or present with its lines.
TxtFiles == {<<>>, <<OneLine>>, <<TwoLines>>}

\* File names are sequences of pieces, of which ".png" is one. The scripts
\* take the files that end in _annotated.png and in _merged.png.
Suffix == IF script = "grouping" THEN "_annotated" ELSE "_merged"

\* str.replace(old, new) replaces every occurrence.
Replace(name, old, new) == [k \in 1..Len(name) |-> IF name[k] = old THEN new ELSE name[k]]

\* txt_path = img_path.replace(".png", ".txt"), and
\* img_path.replace(".png", "_classified.txt") in the classification script.
txt_path_of(img_path) ==
    Replace(img_path, ".png", IF script = "grouping" THEN ".txt" ELSE "_classified.txt")

\* A folder of images with plain names, and one where the first two names
\* have an extension before the suffix.
PlainFolder == [k \in ImgNames |-> <<str(k), Suffix, ".png">>]

DottedFolder ==
    [k \in ImgNames |->
        IF k = 1 THEN <<"s", ".png", Suffix, ".png">>
        ELSE IF k = 2 THEN txt_path_of(<<"s", ".png">>) \o <<Suffix, ".png">>
        ELSE PlainFolder[k]]

\* The txt files of the images of the folder.
TxtPaths == {txt_path_of(folder[k]) : k \in ImgNames}

\* The scan passes an image over when its txt file exists, in the grouping
\* script only when that file has exactly one line.
Skipped(file) ==
    IF script = "grouping" THEN file # <<>> /\ Len(file[1]) = 1 ELSE file # <<>>

\* The (img_path, txt_path) pairs of the images that are not passed over,
\* an image being named by its place in the folder.
Pending ==
    LET pairs == [k \in ImgNames |-> <<k, txt_path_of(folder[k])>>]
        unprocessed(pair) == ~Skipped(txt[pair[2]])
    IN SelectSeq(pairs, unprocessed)

\* clients[j]: the j-th of the batch_size client handles.
clients_first(j) == 0

clients(j) == j

NoClient == 0 - 1

MainAt(pos, i, j) == [pc |-> pos, i |-> i, j |-> j]

\* main(): the clients are created and the images are scanned; with nothing
\* pending the batch loop has no iteration.
ScanImages ==
    /\ main.pc = "scan"
    /\ img_paths' = Pending
    /\ main' = MainAt(IF Len(Pending) = 0 THEN "done" ELSE "submit", 0, 0)
    /\ batch_futures' = <<>>
    /\ UNCHANGED <<script, folder, answers, txt0, txt, txt_writes, request, client_of>>
    /\ UNCHANGED toolVars
    /\ UNCHANGED <<fsVars, stage, pc, tasks, stats, run, calls, writes, snapshot, last,
                   envVars, slept>>

\* executor.submit(process_single_request, clients[j], img_path) for the
\* j-th image of the batch that starts at i.
Submit ==
    /\ main.pc = "submit"
    /\ main.j < config.batch_size /\ main.i + main.j < Len(img_paths)
    /\ LET pair == img_paths[main.i + main.j + 1]
       IN /\ request' = [request EXCEPT ![pair[1]] = "queued"]
          /\ client_of' = [client_of EXCEPT ![pair[1]] = clients(main.j)]
          /\ batch_futures' = Append(batch_futures,
                                     [future |-> pair[1], txt_path |-> pair[2]])
    /\ main' = [main EXCEPT !.j = @ + 1]
    /\ UNCHANGED <<script, folder, answers, txt0, txt, txt_writes, img_paths>>
    /\ UNCHANGED toolVars
    /\ UNCHANGED <<fsVars, stage, pc, tasks, stats, run, calls, writes, snapshot, last,
                   envVars, slept>>

\* The submit loop ends after batch_size images or at the last image.
Submitted ==
    /\ main.pc = "submit"
    /\ ~(main.j < config.batch_size /\ main.i + main.j < Len(img_paths))
    /\ main' = [main EXCEPT !.pc = "collect", !.j = 0]
    /\ UNCHANGED <<script, folder, answers, txt0, txt, txt_writes, img_paths, request, client_of,
                   batch_futures>>
    /\ UNCHANGED toolVars
    /\ UNCHANGED <<fsVars, stage, pc, tasks, stats, run, calls, writes, snapshot, last,
                   envVars, slept>>

\* A worker of the pool, of which there are batch_size, takes a queued call.
Start(p) ==
    /\ request[p] = "queued"
    /\ Cardinality({q \in ImgNames : request[q] = "running"}) < config.batch_size
    /\ request' = [request EXCEPT ![p] = "running"]
    /\ UNCHANGED <<script, folder, answers, txt0, txt, txt_writes, img_paths, main, client_of,
                   batch_futures>>
    /\ UNCHANGED toolVars
    /\ UNCHANGED <<fsVars, stage, pc, tasks, stats, run, calls, writes, snapshot, last,
                   envVars, slept>>

\* process_single_request returns response.text, or None after an exception.
process_single_request(p) ==
    /\ request[p] = "running"
    /\ request' = [request EXCEPT ![p] = "finished"]
    /\ UNCHANGED <<script, folder, answers, txt0, txt, txt_writes, img_paths, main, client_of,
                   batch_futures>>
    /\ UNCHANGED toolVars
    /\ UNCHANGED <<fsVars, stage, pc, tasks, stats, run, calls, writes, snapshot, last,
                   envVars, slept>>

\* future.result() of the j-th future of the batch returns once its call has
\* finished; a result that is not None or empty is written to its txt_path.
Collect ==
    /\ main.pc = "collect"
    /\ main.j < Len(batch_futures)
    /\ LET f == batch_futures[main.j + 1]
           result == answers[f.future]
       IN /\ request[f.future] = "finished"
          /\ IF result # <<>>
             THEN /\ txt' = [txt EXCEPT ![f.txt_path] = <<result>>]
                  /\ txt_writes' = [txt_writes EXCEPT ![f.txt_path] = @ + 1]
             ELSE UNCHANGED <<txt, txt_writes>>
    /\ main' = [main EXCEPT !.j = @ + 1]
    /\ UNCHANGED <<script, folder, answers, txt0, img_paths, request, client_of, batch_futures>>
    /\ UNCHANGED toolVars
    /\ UNCHANGED <<fsVars, stage, pc, tasks, stats, run, calls, writes, snapshot, last,
                   envVars, slept>>

\* After the batch: time.sleep(interval) if i + batch_size < len(img_paths),
\* and the loop ends otherwise.
Collected ==
    /\ main.pc = "collect"
    /\ main.j = Len(batch_futures)
    /\ main' = [main EXCEPT !.pc = IF main.i + config.batch_size < Len(img_paths)
                                   THEN "sleep" ELSE "done"]
    /\ UNCHANGED <<script, folder, answers, txt0, txt, txt_writes, img_paths, request, client_of,
                   batch_futures>>
    /\ UNCHANGED toolVars
    /\ UNCHANGED <<fsVars, stage, pc, tasks, stats, run, calls, writes, snapshot, last,
                   envVars, slept>>

\* The sleep returns and the next batch begins with batch_futures = [].
SleepBatch ==
    /\ main.pc = "sleep"
    /\ slept' = slept + config.interval
    /\ main' = MainAt("submit", main.i + config.batch_size, 0)
    /\ batch_futures' = <<>>
    /\ UNCHANGED <<script, folder, answers, txt0, txt, txt_writes, img_paths, request, client_of>>
    /\ UNCHANGED toolVars
    /\ UNCHANGED <<fsVars, stage, pc, tasks, stats, run, calls, writes, snapshot, last,
                   envVars>>

\* Ctrl-C: KeyboardInterrupt is raised in the main thread, wherever it is
\* in main(), and leaves the batch loop; the workers are not interrupted.
Interrupt ==
    /\ main.pc \in {"scan", "submit", "collect", "sleep"}
    /\ main' = [main EXCEPT !.pc = "exiting"]
    /\ UNCHANGED <<script, folder, answers, txt0, txt, txt_writes, img_paths, request,
                   client_of, batch_futures>>
    /\ UNCHANGED toolVars
    /\ UNCHANGED <<fsVars, stage, pc, tasks, stats, run, calls, writes, snapshot, last,
                   envVars, slept>>

\* The exit of the with block is executor.shutdown(wait=True): it returns
\* when the calls that were submitted have run.
shutdown_nowait == TRUE

shutdown_wait == \A p \in ImgNames : request[p] \notin {"queued", "running"}

\* The exception leaves the with block and ends the process.
Shutdown ==
    /\ main.pc = "exiting"
    /\ shutdown_wait
    /\ main' = [main EXCEPT !.pc = "exited"]
    /\ UNCHANGED <<script, folder, answers, txt0, txt, txt_writes, img_paths, request,
                   client_of, batch_futures>>
    /\ UNCHANGED toolVars
    /\ UNCHANGED <<fsVars, stage, pc, tasks, stats, run, calls, writes, snapshot, last,
                   envVars, slept>>

\* No script runs.
AnnoOff ==
    /\ script = "grouping"
    /\ folder = PlainFolder
    /\ answers = [p \in ImgNames |-> <<>>]
    /\ txt0 = [t \in TxtPaths |-> <<>>]
    /\ txt = txt0
    /\ txt_writes = [t \in TxtPaths |-> 0]
    /\ img_paths = <<>>
    /\ main = MainAt("off", 0, 0)
    /\ request = [p \in ImgNames |-> "none"]
    /\ client_of = [p \in ImgNames |-> NoClient]
    /\ batch_futures = <<>>

(***************************************************************************)
(* run_pipeline.py: run_pipeline(start_step, end_step) runs the stages as  *)
(* child processes, of which only the exit status is of interest here.     *)
(***************************************************************************)
\* What the user may type at the prompt, as characters; EndOfInput stands
\* for a closed standard input, on which input() raises EOFError.
EndOfInput == <<"EOF">>

Replies == {<<"y">>, <<"Y">>, <<" ", "y", " ">>, <<"y", "e", "s">>, <<"n">>, <<>>, EndOfInput}

RECURSIVE StripSpaces(_)
StripSpaces(cs) ==
    IF cs # <<>> /\ cs[1] = " " THEN StripSpaces(Tail(cs))
    ELSE IF cs # <<>> /\ cs[Len(cs)] = " " THEN StripSpaces(SubSeq(cs, 1, Len(cs) - 1))
    ELSE cs

Lower(cs) == [k \in 1..Len(cs) |-> IF cs[k] = "Y" THEN "y" ELSE cs[k]]

\* response = input(...).strip().lower(), and the test response != 'y'.
go_on(reply) == Lower(StripSpaces(reply)) = <<"y">>

\* The stages the loop does not skip.
selected_all(step_num) == TRUE

selected(step_num) == ~(step_num < runner.start_step \/ step_num > runner.end_step)

RunnerAt(pos, step_num) == [runner EXCEPT !.pc = pos, !.step_num = step_num]

\* One iteration of the loop over steps: a stage out of the range is
\* skipped, another is handed to run_step, which starts its process.
NextStage ==
    /\ runner.pc = "loop"
    /\ IF runner.step_num > 5
       THEN runner' = RunnerAt("summary", runner.step_num) /\ UNCHANGED launched
       ELSE IF ~selected(runner.step_num)
       THEN runner' = RunnerAt("loop", runner.step_num + 1) /\ UNCHANGED launched
       ELSE /\ runner' = RunnerAt("running", runner.step_num)
            /\ launched' = Append(launched, [step_num |-> runner.step_num,
                                              exited |-> FALSE, success |-> FALSE,
                                              reply |-> <<>>])
    /\ UNCHANGED sideVars
    /\ UNCHANGED annoVars
    /\ UNCHANGED <<fsVars, stage, pc, tasks, stats, run, calls, writes, snapshot, last,
                   envVars, slept>>

\* subprocess.run(cmd, check=True) returns when the process has exited:
\* run_step is True on exit status 0, False on any other and on an
\* exception; the counters follow.
StageExit(success) ==
    /\ runner.pc = "running"
    /\ launched' = [launched EXCEPT ![Len(launched)].exited = TRUE,
                                     ![Len(launched)].success = success]
    /\ runner' = IF success
                 THEN [runner EXCEPT !.success_count = @ + 1, !.pc = "loop",
                                     !.step_num = @ + 1]
                 ELSE [runner EXCEPT !.failed_count = @ + 1, !.pc = "prompt"]
    /\ UNCHANGED sideVars
    /\ UNCHANGED annoVars
    /\ UNCHANGED <<fsVars, stage, pc, tasks, stats, run, calls, writes, snapshot, last,
                   envVars, slept>>

\* The answer to the prompt after a failed stage: the loop goes on after
\* y, ends after anything else, and EOFError ends run_pipeline.
Prompt(reply) ==
    /\ runner.pc = "prompt"
    /\ launched' = [launched EXCEPT ![Len(launched)].reply = reply]
    /\ runner' = IF reply = EndOfInput THEN RunnerAt("raised", runner.step_num)
                 ELSE IF go_on(reply) THEN RunnerAt("loop", runner.step_num + 1)
                 ELSE RunnerAt("summary", runner.step_num)
    /\ UNCHANGED sideVars
    /\ UNCHANGED annoVars
    /\ UNCHANGED <<fsVars, stage, pc, tasks, stats, run, calls, writes, snapshot, last,
                   envVars, slept>>

(***************************************************************************)
(* correct_format_bol.py: process_txt_files over the annotation files the  *)
(* scripts wrote. A file is a sequence of lines.                           *)
(***************************************************************************)
\* line.strip(): of the lines used here, two begin with a blank.
LineStrip(line) ==
    IF line = " [1]]" THEN "[1]]" ELSE IF line = " FENCE" THEN "FENCE" ELSE line

RECURSIVE DropBlank(_)
DropBlank(lines) ==
    IF lines # <<>> /\ lines[1] = "" THEN DropBlank(Tail(lines))
    ELSE IF lines # <<>> /\ lines[Len(lines)] = ""
    THEN DropBlank(SubSeq(lines, 1, Len(lines) - 1))
    ELSE lines

\* f.read().strip().split('\n'): blank lines at both ends go, and so does
\* the blank before the first line; the empty text splits into one line.
ContentLines(lines) ==
    LET kept == DropBlank(lines)
    IN IF kept = <<>> THEN <<"">> ELSE <<LineStrip(kept[1])>> \o Tail(kept)

\* first_line.startswith(three backquotes)
FenceLine(line) == line \in FenceTok

\* content.startswith('[') or content.startswith('{')
StartsLikeJson(line) == line \in {"[[0]]", "[[0],", "[1]]"}

\* What process_txt_files does with one file: "write" and the text written,
\* "error" or "skip".
correct(lines) ==
    IF FenceLine(LineStrip(lines[1]))
    THEN IF Len(lines) >= 2
         THEN [do |-> "write", content |-> <<LineStrip(lines[2])>>]
         ELSE [do |-> "error", content |-> <<>>]
    ELSE IF StartsLikeJson(lines[1]) THEN [do |-> "skip", content |-> <<>>]
    ELSE [do |-> "error", content |-> <<>>]

\* The loop of os.walk visits a file: reading it raises, or it is corrected.
CorrectFile(t, fails) ==
    /\ corrector.pc = "walk"
    /\ t \in corrector.left
    /\ LET c == correct(ContentLines(txt[t][1]))
       IN IF fails
          THEN /\ corrector' = [corrector EXCEPT !.left = @ \ {t}, !.raised = @ \cup {t},
                                                  !.error_count = @ + 1]
               /\ UNCHANGED txt
          ELSE /\ corrector' = [corrector EXCEPT
                                    !.left = @ \ {t},
                                    !.processed_count = @ + (IF c.do = "write" THEN 1 ELSE 0),
                                    !.error_count = @ + (IF c.do = "error" THEN 1 ELSE 0)]
               /\ txt' = IF c.do = "write" THEN [txt EXCEPT ![t] = <<c.content>>] ELSE txt
    /\ UNCHANGED <<script, folder, answers, txt0, txt_writes, img_paths, main, request,
                   client_of, batch_futures>>
    /\ UNCHANGED <<runner, launched, rasterizer, converter, input_dir, image_dir>>
    /\ UNCHANGED <<fsVars, stage, pc, tasks, stats, run, calls, writes, snapshot, last,
                   envVars, slept>>

\* The walk is over and the counts are printed.
Corrected ==
    /\ corrector.pc = "walk"
    /\ corrector.left = {}
    /\ corrector' = [corrector EXCEPT !.pc = "done"]
    /\ UNCHANGED annoVars
    /\ UNCHANGED <<runner, launched, rasterizer, converter, input_dir, image_dir>>
    /\ UNCHANGED <<fsVars, stage, pc, tasks, stats, run, calls, writes, snapshot, last,
                   envVars, slept>>

CorrectorAt(pos, left) ==
    [pc |-> pos, left |-> left, raised |-> {}, processed_count |-> 0, error_count |-> 0]

(***************************************************************************)
(* step1_doc_to_images.py on its own: the documents of the input           *)
(* directory, by sub-directory, stem and suffix, and the image files the   *)
(* rasterizer saves for their pages.                                       *)
(***************************************************************************)
MaxDocs == 2
MaxPages == 2

Dirs == {"", "sub"}
Stems == {"a", "b"}
Exts == {".pdf", ".docx", ".txt"}
DocPaths == [dir : Dirs, stem : Stems, ext : Exts]
InputDirs == {D \in SUBSET DocPaths : Cardinality(D) \in 1..MaxDocs}

SUPPORTED_FORMATS == {".pdf", ".docx", ".doc", ".xlsx", ".xls"}

\* input_dir.glob("**/*" + ext) for every supported ext: every depth.
scan_documents == {d \in input_dir : d.ext \in SUPPORTED_FORMATS}

\* documents.sort(): paths compare part by part, so files at the top come
\* before those under sub/, then by stem, then by suffix.
Place(order, x) == CHOOSE i \in 1..Len(order) : order[i] = x
PathRank(d) ==
    (Place(<<"", "sub">>, d.dir) * Cardinality(Stems) + Place(<<"a", "b">>, d.stem))
        * Cardinality(Exts) + Place(<<".docx", ".pdf", ".txt">>, d.ext)

page_name(page_num) == <<"page_", ToString(page_num)>>

\* f"{doc_path.stem}_{page_name}.png": the directory and the suffix of the
\* document are not part of the name.
output_name(d, name) == <<d.stem, "_">> \o name \o <<".png">>

ImageFiles == {output_name(d, page_name(k)) : d \in DocPaths, k \in 1..MaxPages}

RasterizerAt(pos, left) ==
    [pc |-> pos, left |-> left, total |-> Cardinality(left), success |-> 0, failed |-> 0,
     images_created |-> 0]

\* run(): scan_documents; without documents it returns at once.
ScanDocuments ==
    /\ rasterizer.pc = "scan"
    /\ rasterizer' = RasterizerAt(IF scan_documents = {} THEN "done" ELSE "loop",
                                  scan_documents)
    /\ UNCHANGED <<corrector, converter, input_dir, image_dir>>
    /\ UNCHANGED <<runner, launched>>
    /\ UNCHANGED annoVars
    /\ UNCHANGED <<fsVars, stage, pc, tasks, stats, run, calls, writes, snapshot, last,
                   envVars, slept>>

\* process_single(doc_path) for the next document in sorted order: the
\* conversion raises, or each of its pages is saved under output_name.
ConvertDocument(d, pages, fails) ==
    /\ rasterizer.pc = "loop"
    /\ d \in rasterizer.left
    /\ \A e \in rasterizer.left : PathRank(d) <= PathRank(e)
    /\ LET pages_to_process == IF config.only_first_page THEN 1 ELSE pages
       IN IF fails
          THEN /\ rasterizer' = [rasterizer EXCEPT !.left = @ \ {d}, !.failed = @ + 1]
               /\ UNCHANGED image_dir
          ELSE /\ rasterizer' = [rasterizer EXCEPT !.left = @ \ {d}, !.success = @ + 1,
                                     !.images_created = @ + pages_to_process]
               /\ image_dir' =
                      [n \in ImageFiles |->
                          IF \E k \in 1..pages_to_process : n = output_name(d, page_name(k))
                          THEN Append(image_dir[n],
                                      <<d, CHOOSE k \in 1..pages_to_process :
                                               n = output_name(d, page_name(k))>>)
                          ELSE image_dir[n]]
    /\ UNCHANGED <<corrector, converter, input_dir>>
    /\ UNCHANGED <<runner, launched>>
    /\ UNCHANGED annoVars
    /\ UNCHANGED <<fsVars, stage, pc, tasks, stats, run, calls, writes, snapshot, last,
                   envVars, slept>>

\* The loop is over and the statistics are printed.
Rasterized ==
    /\ rasterizer.pc = "loop"
    /\ rasterizer.left = {}
    /\ rasterizer' = [rasterizer EXCEPT !.pc = "done"]
    /\ UNCHANGED <<corrector, converter, input_dir, image_dir>>
    /\ UNCHANGED <<runner, launched>>
    /\ UNCHANGED annoVars
    /\ UNCHANGED <<fsVars, stage, pc, tasks, stats, run, calls, writes, snapshot, last,
                   envVars, slept>>

(***************************************************************************)
(* multi_format_to_funsd.py: process_directory over the documents of the   *)
(* input directory.                                                        *)
(***************************************************************************)
supported_ext == <<".pdf", ".xlsx", ".xls", ".docx", ".doc">>

\* The files of a set as a listing of the directory gives them.
RECURSIVE InOrder(_)
InOrder(files) ==
    IF files = {} THEN <<>>
    ELSE LET d == CHOOSE d \in files : \A e \in files : PathRank(d) <= PathRank(e)
         IN <<d>> \o InOrder(files \ {d})

\* input_path.glob("*" + ext): the files directly in the directory.
glob_top(ext) == InOrder({d \in input_dir : d.dir = "" /\ d.ext = ext})

\* input_path.glob("**/*" + ext): the files at every depth, those directly
\* in the directory included.
glob_deep(ext) == InOrder({d \in input_dir : d.ext = ext})

\* doc_files: for every ext, extended by the first glob and by the second.
RECURSIVE doc_files_of(_)
doc_files_of(exts) ==
    IF exts = <<>> THEN <<>>
    ELSE glob_top(Head(exts)) \o glob_deep(Head(exts)) \o doc_files_of(Tail(exts))

ConverterAt(pos, doc_files) ==
    [pc |-> pos, doc_files |-> doc_files, i |-> 1, total_files |-> Len(doc_files),
     processed_files |-> 0, failed_files |-> 0, results |-> <<>>]

\* process_directory up to the loop: without documents it returns zeros.
ListDocuments ==
    /\ converter.pc = "list"
    /\ LET doc_files == doc_files_of(supported_ext)
       IN converter' = ConverterAt(IF doc_files = <<>> THEN "done" ELSE "loop", doc_files)
    /\ UNCHANGED <<corrector, rasterizer, input_dir, image_dir>>
    /\ UNCHANGED <<runner, launched>>
    /\ UNCHANGED annoVars
    /\ UNCHANGED <<fsVars, stage, pc, tasks, stats, run, calls, writes, snapshot, last,
                   envVars, slept>>

\* One turn of the loop: process_single_document returns or raises.
ProcessDocument(raises) ==
    /\ converter.pc = "loop"
    /\ converter.i <= Len(converter.doc_files)
    /\ LET doc_file == converter.doc_files[converter.i]
       IN converter' =
              [converter EXCEPT
                  !.i = @ + 1,
                  !.processed_files = @ + (IF raises THEN 0 ELSE 1),
                  !.failed_files = @ + (IF raises THEN 1 ELSE 0),
                  !.results = Append(@, [file |-> doc_file,
                                         status |-> IF raises THEN "failed"
                                                    ELSE "success"])]
    /\ UNCHANGED <<corrector, rasterizer, input_dir, image_dir>>
    /\ UNCHANGED <<runner, launched>>
    /\ UNCHANGED annoVars
    /\ UNCHANGED <<fsVars, stage, pc, tasks, stats, run, calls, writes, snapshot, last,
                   envVars, slept>>

\* The loop is over: return stats.
ReturnStats ==
    /\ converter.pc = "loop"
    /\ converter.i > Len(converter.doc_files)
    /\ converter' = [converter EXCEPT !.pc = "done"]
    /\ UNCHANGED <<corrector, rasterizer, input_dir, image_dir>>
    /\ UNCHANGED <<runner, launched>>
    /\ UNCHANGED annoVars
    /\ UNCHANGED <<fsVars, stage, pc, tasks, stats, run, calls, writes, snapshot, last,
                   envVars, slept>>

\* Neither process_txt_files nor the other tools run.
SideOff ==
    /\ corrector = CorrectorAt("off", {})
    /\ rasterizer = RasterizerAt("off", {})
    /\ converter = [pc |-> "off"]
    /\ input_dir = {}
    /\ image_dir = <<>>

\* The runner does not run.
ToolsOff ==
    /\ runner = [pc |-> "off", step_num |-> 0, start_step |-> 1, end_step |-> 5,
                 success_count |-> 0, failed_count |-> 0]
    /\ launched = <<>>
    /\ SideOff

(***************************************************************************)
(* Spec: the whole pipeline over the two documents, run MaxRuns times.     *)
(***************************************************************************)
InitCommon ==
    /\ dataset_info = <<>>
    /\ tasks = {}
    /\ stats = ZeroStats
    /\ run = 1
    /\ calls = [ocr |-> 0, vlm |-> 0]
    /\ writes = [s \in StepNums |-> [p \in PageNames |-> 0]]
    /\ snapshot = NoFiles
    /\ last = NoCall
    /\ slept = 0
    /\ AnnoOff
    /\ ToolsOff

Init ==
    /\ InitCommon
    /\ image_file = StepOneImages
    /\ fs_images = NoFiles
    /\ fs_ocr = NoFiles
    /\ fs_grouping = NoFiles
    /\ fs_classification = NoFiles
    /\ fs_funsd = NoFiles
    /\ stage = 0
    /\ pc = "idle"
    /\ responses = [grouping |-> {Fenced(<<P_pair>>), <<P_missing>>, <<P_prose>>},
                    classification |-> {<<C_first>>, <<C_prose>>}]
    /\ fp_low = {}
    /\ \/ config \in Configs /\ page_count = OnePageEach /\ visualize = FALSE
       \/ /\ config \in {DEFAULT_CONFIG, [DEFAULT_CONFIG EXCEPT !.only_first_page = FALSE]}
          /\ page_count \in PageCounts \ {OnePageEach}
          /\ visualize = FALSE
       \/ config = DEFAULT_CONFIG /\ page_count = OnePageEach /\ visualize = TRUE

Step1 == Scan1 \/ \E p \in PageNames, fails \in BOOLEAN : Process1(p, fails)

Step2 == Scan2 \/ \E p \in PageNames, fails, vis_fails \in BOOLEAN : Process2(p, fails, vis_fails)

Step3 ==
    \/ Scan3
    \/ \E p \in PageNames : \/ Process3(p, TRUE, <<>>)
                            \/ \E raw \in responses.grouping : Process3(p, FALSE, raw)

Step4 ==
    \/ Scan4
    \/ \E p \in PageNames : \/ Process4(p, TRUE, <<>>)
                            \/ \E raw \in responses.classification : Process4(p, FALSE, raw)

Step5 ==
    \/ Scan5
    \/ \E p \in PageNames, io_fails, vis_fails \in BOOLEAN : Process5(p, io_fails, vis_fails)
    \/ Finish5

Next == RunStep \/ NextRun \/ Step1 \/ Step2 \/ Step3 \/ Step4 \/ Step5 \/ Sleep

Spec == Init /\ [][Next]_vars

\* The pipeline with the default settings but batches of one page, so that
\* it sleeps between the pages: all five steps, failing calls, repeated runs.
InitRuns ==
    /\ Init
    /\ visualize = FALSE
    /\ page_count = OnePageEach
    /\ config = [DEFAULT_CONFIG EXCEPT !.batch_size = 1]

SpecRuns == InitRuns /\ [][Next]_vars

(***************************************************************************)
(* SpecPage: steps 3, 4 and 5 over the page of document a, with every      *)
(* response of the backend.                                                *)
(***************************************************************************)
OnePage(p, ocr_results) ==
    /\ config = DEFAULT_CONFIG
    /\ page_count = OnePageEach
    /\ fs_images = [NoFiles EXCEPT ![p] = <<[doc |-> "a"]>>]
    /\ fs_ocr = [NoFiles EXCEPT ![p] = <<[image_name |-> p, text_boxes |-> ocr_results,
                                           total_boxes |-> Len(ocr_results)]>>]

InitPage ==
    /\ InitCommon
    /\ image_file = StepOneImages
    /\ visualize = FALSE
    /\ OnePage("a_page_1", ocr_image(OcrBackend([doc |-> "a"])))
    /\ fs_grouping = NoFiles
    /\ fs_classification = NoFiles
    /\ fs_funsd = NoFiles
    /\ stage = 3
    /\ pc = "start"
    /\ responses = [grouping |-> GroupingResponses,
                    classification |-> ClassificationResponses]
    /\ fp_low = {}

NextPage == RunStep \/ Step3 \/ Step4 \/ Step5

SpecPage == InitPage /\ [][NextPage]_vars

(***************************************************************************)
(* SpecMerge: step 5 over one page whose OCR, grouping and classification  *)
(* artifacts are drawn from bounded families.                              *)
(***************************************************************************)
SeqsUpTo(S, n) == UNION {[1..k -> S] : k \in 0..n}

Texts(n) == SeqsUpTo({"a", " "}, n)

\* The axis-aligned boxes with corners in 0..MaxCoord.
Boxes ==
    {<<x1, y1, x2, y2>> : x1 \in 0..MaxCoord, y1 \in 0..MaxCoord,
                          x2 \in 0..MaxCoord, y2 \in 0..MaxCoord}

Line(box, text) == [polygon |-> Rect(box[1], box[2], box[3], box[4]), text |-> text]

\* The JSON of a list of lists of ids.
JGroups(gs) == J_arr([i \in 1..Len(gs) |-> J_arr([j \in 1..Len(gs[i]) |-> J_int(gs[i][j])])])

GroupChoices ==
    {<<>>, <<0, 1>>, <<MaxFrags, 0>>} \cup {<<i>> : i \in 0..MaxFrags}

ClassChoices ==
    {ParseResponse(<<pl>>).v :
        pl \in {C_first, C_both, C_second, C_text, C_beyond, C_large, C_none, C_empty,
                C_all, C_word, C_listed, C_array}}

\* The page with the given backend lines, groups and classifications.
MergeInput(lines, groups, classifications) ==
    /\ OnePage("a_page_1", ocr_image(lines))
    /\ fs_grouping = [NoFiles EXCEPT !["a_page_1"] =
                          <<[image_name |-> "a_page_1", groups |-> groups,
                             total_groups |-> PyLen(groups), total_boxes |-> Len(lines)]>>]
    /\ fs_classification = [NoFiles EXCEPT !["a_page_1"] =
                                <<[image_name |-> "a_page_1",
                                   classifications |-> classifications]>>]

\* Two fragments with any two boxes, in one group.
InitBoxes ==
    \E b1, b2 \in {b \in Boxes : b[1] <= b[3] /\ b[2] <= b[4]} :
        /\ MergeInput(<<Line(b1, <<"a">>), Line(b2, <<"b">>)>>,
                      JGroups(<<<<0, 1>>>>), J_obj(<<>>, <<>>))
        /\ fp_low = {}

\* The short texts and some of three words.
WordTexts ==
    Texts(MaxTextLen) \cup {<<"a", " ", "a", " ", "a">>, <<"a", "a", " ", "a", " ", " ", "a">>,
                            <<" ", "a", " ", "a", "a", " ", "a", " ">>}

\* One fragment with any text and width, under any rounding.
InitWords ==
    \E text \in WordTexts, w \in 0..MaxWidth, low \in SUBSET (2..(1 + MaxWidth)) :
        /\ MergeInput(<<Line(<<1, 0, 1 + w, 1>>, text)>>, JGroups(<<<<0>>>>),
                      J_obj(<<>>, <<>>))
        /\ fp_low = low

\* Two fragments with any two short texts in one group, under any rounding.
InitJoined ==
    \E t1, t2 \in Texts(MaxTextLen - 1), low \in SUBSET (2..(1 + MaxWidth)) :
        /\ MergeInput(<<Line(<<1, 0, 1 + MaxWidth, 1>>, t1), Line(<<1, 1, 1 + MaxWidth, 2>>, t2)>>,
                      JGroups(<<<<0, 1>>>>), J_obj(<<>>, <<>>))
        /\ fp_low = low

\* Fragments 0..MaxFrags-1 with texts and boxes of their own, any list of
\* groups over the ids 0..MaxFrags and any classification.
FragLine(i) == Line(<<2 * i, i, 2 * i + 3, i + 1>>, <<"w", Digits[i + 1]>>)

InitLabels ==
    \E gs \in SeqsUpTo(GroupChoices, MaxGroups), cls \in ClassChoices :
        /\ MergeInput([i \in 1..MaxFrags |-> FragLine(i - 1)], JGroups(gs), cls)
        /\ fp_low = {}

\* One fragment in one group under every label id of the taxonomy.
InitTaxonomy ==
    \E id \in DOMAIN BILL_OF_LADING_LABELS :
        /\ MergeInput(<<FragLine(0)>>, JGroups(<<<<0>>>>), J_obj(<<"0">>, <<J_int(id)>>))
        /\ fp_low = {}

InitMerge ==
    /\ InitCommon
    /\ image_file = StepOneImages
    /\ visualize = FALSE
    /\ InitBoxes \/ InitWords \/ InitJoined \/ InitLabels \/ InitTaxonomy
    /\ fs_funsd = NoFiles
    /\ stage = 5
    /\ pc = "start"
    /\ responses = [grouping |-> {}, classification |-> {}]

SpecMerge == InitMerge /\ [][Step5]_vars

(***************************************************************************)
(* SpecOcr: step 2 over one scanned image whose lines are drawn from       *)
(* bounded families.                                                       *)
(***************************************************************************)
\* The points of the backend, in halves.
Points == {<<x, y>> : x \in 0..(2 * MaxCoord), y \in 0..1}

ScanLine(i) == [polygon |-> <<<<2 * i + 1, 3>>, <<2 * i + 4, 0>>, <<2 * i + 5, 7>>, <<2 * i, 6>>>>,
                text |-> <<"w", Digits[i + 1]>>]

\* One line with any four points, or up to MaxFrags + 1 lines.
ScanChoices ==
    {<<[polygon |-> <<p1, p2, p3, p4>>, text |-> <<"a">>]>> : p1, p2, p3, p4 \in Points}
    \cup {[i \in 1..n |-> ScanLine(i - 1)] : n \in 0..(MaxFrags + 1)}

InitOcr ==
    /\ InitCommon
    /\ image_file = StepOneImages
    /\ visualize = FALSE
    /\ \E lines \in ScanChoices :
           fs_images = [NoFiles EXCEPT !["a_page_1"] = <<[doc |-> "scan", lines |-> lines]>>]
    /\ fs_ocr = NoFiles
    /\ fs_grouping = NoFiles
    /\ fs_classification = NoFiles
    /\ fs_funsd = NoFiles
    /\ stage = 2
    /\ pc = "start"
    /\ responses = [grouping |-> {}, classification |-> {}]
    /\ fp_low = {}
    /\ config = DEFAULT_CONFIG
    /\ page_count = OnePageEach

SpecOcr == InitOcr /\ [][Step2]_vars

(***************************************************************************)
(* SpecBatch: the batches of the runs that call the VLM. Either step 3 or  *)
(* step 4 runs over the pages that are pending, or one of the annotation   *)
(* scripts runs over the images of its directory, with any batch size up   *)
(* to MaxBatch.                                                            *)
(***************************************************************************)
BatchConfigs == {[DEFAULT_CONFIG EXCEPT !.batch_size = b] : b \in 1..MaxBatch}

\* Step 3 or step 4 is started over the given pages, which have their
\* images and OCR artifacts, and for step 4 their grouping artifacts.
InitSteps ==
    /\ InitCommon
    /\ image_file = StepOneImages
    /\ visualize = FALSE
    /\ config \in BatchConfigs
    /\ page_count = OnePageEach
    /\ stage \in {3, 4}
    /\ pc = "start"
    /\ \E pages \in SUBSET PageNames :
           LET ocr_results == ocr_image(OcrBackend([doc |-> "a"]))
               among(file) == [p \in PageNames |-> IF p \in pages THEN file[p] ELSE <<>>]
           IN /\ fs_images = among([p \in PageNames |-> <<[doc |-> "a"]>>])
              /\ fs_ocr = among([p \in PageNames |->
                                    <<[image_name |-> p, text_boxes |-> ocr_results,
                                       total_boxes |-> Len(ocr_results)]>>])
              /\ fs_grouping =
                     IF stage = 3 THEN NoFiles
                     ELSE among([p \in PageNames |->
                                    <<[image_name |-> p, groups |-> JGroups(<<<<0, 1>>>>),
                                       total_groups |-> 1,
                                       total_boxes |-> Len(ocr_results)]>>])
    /\ fs_classification = NoFiles
    /\ fs_funsd = NoFiles
    /\ responses = [grouping |-> {<<P_pair>>, <<P_prose>>},
                    classification |-> {<<C_first>>, <<C_prose>>}]
    /\ fp_low = {}

\* No stage of the pipeline runs and its directories are empty.
PipelineIdle ==
    /\ slept = 0
    /\ image_file = StepOneImages
    /\ page_count = OnePageEach
    /\ fs_images = NoFiles
    /\ fs_ocr = NoFiles
    /\ fs_grouping = NoFiles
    /\ fs_classification = NoFiles
    /\ fs_funsd = NoFiles
    /\ dataset_info = <<>>
    /\ stage = 0
    /\ pc = "idle"
    /\ tasks = {}
    /\ stats = ZeroStats
    /\ run = 1
    /\ calls = [ocr |-> 0, vlm |-> 0]
    /\ writes = [s \in StepNums |-> [p \in PageNames |-> 0]]
    /\ snapshot = NoFiles
    /\ last = NoCall
    /\ responses = [grouping |-> {}, classification |-> {}]
    /\ visualize = FALSE
    /\ fp_low = {}

\* One of the scripts is started over MaxImages images, with any txt files
\* from earlier runs and any response for each image.
InitScript ==
    /\ script \in {"grouping", "classification"}
    /\ folder \in {PlainFolder, DottedFolder}
    /\ answers \in [ImgNames -> AnswerTexts]
    /\ txt0 \in [TxtPaths -> TxtFiles]
    /\ txt = txt0
    /\ txt_writes = [t \in TxtPaths |-> 0]
    /\ img_paths = <<>>
    /\ main = MainAt("scan", 0, 0)
    /\ request = [p \in ImgNames |-> "none"]
    /\ client_of = [p \in ImgNames |-> NoClient]
    /\ batch_futures = <<>>
    /\ ToolsOff
    /\ config \in BatchConfigs
    /\ PipelineIdle

InitBatch == InitSteps \/ InitScript

Worker == \E p \in ImgNames : Start(p) \/ process_single_request(p)

NextBatch ==
    \/ Step3 \/ Step4 \/ Sleep
    \/ ScanImages \/ Submit \/ Submitted \/ Worker \/ Collect \/ Collected \/ SleepBatch

SpecBatch == InitBatch /\ [][NextBatch]_vars

(***************************************************************************)
(* SpecRunner: run_pipeline with any --start and --end, any exit status of *)
(* the stages and any answer of the user.                                  *)
(***************************************************************************)
StepArgs == 0..6

InitRunner ==
    /\ \E start_step, end_step \in StepArgs :
           runner = [pc |-> "loop", step_num |-> 1, start_step |-> start_step,
                     end_step |-> end_step, success_count |-> 0, failed_count |-> 0]
    /\ launched = <<>>
    /\ SideOff
    /\ AnnoOff
    /\ config = DEFAULT_CONFIG
    /\ PipelineIdle

NextRunner ==
    \/ NextStage
    \/ \E success \in BOOLEAN : StageExit(success)
    \/ \E reply \in Replies : Prompt(reply)

SpecRunner == InitRunner /\ [][NextRunner]_vars

(***************************************************************************)
(* SpecCorrect: process_txt_files over the txt files of a folder, each     *)
(* with one of the contents below.                                         *)
(***************************************************************************)
FileContents ==
    {<<"FENCEjson", "[[0]]", "FENCE">>,
     <<"FENCEjson", "[[0],", " [1]]", "FENCE">>,
     <<"FENCEjson", "[[0]]", "FENCE", "">>,
     <<"FENCE", "FENCE">>,
     <<"FENCE">>,
     <<"[[0]]">>,
     <<"[[0],", " [1]]">>,
     <<"", "[[0]]", "">>,
     <<"text">>}

InitCorrect ==
    /\ script \in {"grouping", "classification"}
    /\ folder = PlainFolder
    /\ txt0 \in [TxtPaths -> {<<c>> : c \in FileContents}]
    /\ txt = txt0
    /\ corrector = CorrectorAt("walk", TxtPaths)
    /\ rasterizer = RasterizerAt("off", {})
    /\ converter = [pc |-> "off"]
    /\ input_dir = {}
    /\ image_dir = <<>>
    /\ runner = [pc |-> "off", step_num |-> 0, start_step |-> 1, end_step |-> 5,
                 success_count |-> 0, failed_count |-> 0]
    /\ launched = <<>>
    /\ answers = [p \in ImgNames |-> <<>>]
    /\ txt_writes = [t \in TxtPaths |-> 0]
    /\ img_paths = <<>>
    /\ main = MainAt("off", 0, 0)
    /\ request = [p \in ImgNames |-> "none"]
    /\ client_of = [p \in ImgNames |-> NoClient]
    /\ batch_futures = <<>>
    /\ config = DEFAULT_CONFIG
    /\ PipelineIdle

NextCorrect ==
    \/ \E t \in TxtPaths, fails \in BOOLEAN : CorrectFile(t, fails)
    \/ Corrected

SpecCorrect == InitCorrect /\ [][NextCorrect]_vars

(***************************************************************************)
(* Spec: steps 2 to 5 run once in order over images that lie under         *)
(* data/02_images, every call of the OCR backend and of the model           *)
(* succeeding with a well-formed response and every file written.          *)
(***************************************************************************)
InitChain ==
    /\ InitCommon
    /\ visualize = FALSE
    /\ image_file \in [PageNames -> ImageKinds]
    /\ config = DEFAULT_CONFIG
    /\ page_count = OnePageEach
    /\ fs_images = [p \in PageNames |-> <<[doc |-> "a"]>>]
    /\ fs_ocr = NoFiles
    /\ fs_grouping = NoFiles
    /\ fs_classification = NoFiles
    /\ fs_funsd = NoFiles
    /\ stage = 2
    /\ pc = "start"
    /\ responses = [grouping |-> {<<P_pair>>, Fenced(<<P_pair>>)},
                    classification |-> {<<C_first>>, Fenced(<<C_first>>)}]
    /\ fp_low = {}

NextChain ==
    \/ RunStep
    \/ Scan2
    \/ \E p \in PageNames : Process2(p, FALSE, FALSE)
    \/ Scan3
    \/ \E p \in PageNames, raw \in responses.grouping : Process3(p, FALSE, raw)
    \/ Scan4
    \/ \E p \in PageNames, raw \in responses.classification : Process4(p, FALSE, raw)
    \/ Scan5
    \/ \E p \in PageNames : Process5(p, FALSE, FALSE)
    \/ Finish5

SpecChain == InitChain /\ [][NextChain]_vars

(***************************************************************************)
(* Spec: step 1 on its own over the input directories of at most MaxDocs   *)
(* documents, with only_first_page set or not.                             *)
(***************************************************************************)
InitRaster ==
    /\ input_dir \in InputDirs
    /\ image_dir = [n \in ImageFiles |-> <<>>]
    /\ rasterizer = RasterizerAt("scan", {})
    /\ corrector = CorrectorAt("off", {})
    /\ converter = [pc |-> "off"]
    /\ runner = [pc |-> "off", step_num |-> 0, start_step |-> 1, end_step |-> 5,
                 success_count |-> 0, failed_count |-> 0]
    /\ launched = <<>>
    /\ AnnoOff
    /\ config \in {DEFAULT_CONFIG, [DEFAULT_CONFIG EXCEPT !.only_first_page = FALSE]}
    /\ PipelineIdle

NextRaster ==
    \/ ScanDocuments
    \/ \E d \in DocPaths, pages \in 1..MaxPages, fails \in BOOLEAN :
           ConvertDocument(d, pages, fails)
    \/ Rasterized

SpecRaster == InitRaster /\ [][NextRaster]_vars

(***************************************************************************)
(* Spec: one call of process_directory over the input directories of at    *)
(* most MaxDocs documents, every document parsed or raising.               *)
(***************************************************************************)
InitConvert ==
    /\ input_dir \in InputDirs
    /\ image_dir = <<>>
    /\ converter = [pc |-> "list"]
    /\ rasterizer = RasterizerAt("off", {})
    /\ corrector = CorrectorAt("off", {})
    /\ runner = [pc |-> "off", step_num |-> 0, start_step |-> 1, end_step |-> 5,
                 success_count |-> 0, failed_count |-> 0]
    /\ launched = <<>>
    /\ AnnoOff
    /\ config = DEFAULT_CONFIG
    /\ PipelineIdle

NextConvert ==
    \/ ListDocuments
    \/ \E raises \in BOOLEAN : ProcessDocument(raises)
    \/ ReturnStats

SpecConvert == InitConvert /\ [][NextConvert]_vars

(***************************************************************************)
(* SpecInterrupt: a script runs over a folder without txt files, and the   *)
(* user may interrupt it at any moment.                                    *)
(***************************************************************************)
InitInterrupt ==
    /\ InitScript
    /\ folder = PlainFolder
    /\ \A t \in TxtPaths : txt0[t] = <<>>

NextInterrupt ==
    \/ ScanImages \/ Submit \/ Submitted \/ Worker \/ Collect \/ Collected \/ SleepBatch
    \/ Interrupt \/ Shutdown

SpecInterrupt == InitInterrupt /\ [][NextInterrupt]_vars

(***************************************************************************)
(* The notions the properties below are stated in.                         *)
(***************************************************************************)
\* A JSON array of integers, and a JSON array of such arrays.
IsIdList(g) == g.t = "arr" /\ \A j \in 1..Len(g.a) : g.a[j].t = "int"

IsGroupList(v) == v.t = "arr" /\ \A i \in 1..Len(v.a) : IsIdList(v.a[i])

\* The pages that have a final annotation made from a list of id lists.
Merged ==
    {p \in PageNames : /\ Exists(fs_funsd, p) /\ Exists(fs_ocr, p)
                       /\ Exists(fs_grouping, p) /\ Exists(fs_classification, p)
                       /\ IsGroupList(fs_grouping[p][1].groups)}

FragmentsOf(p) == fs_ocr[p][1].text_boxes

GroupsOf(p) == fs_grouping[p][1].groups.a

ClassOf(p) == fs_classification[p][1].classifications

FormOf(p) == fs_funsd[p][1].form

FragmentIds(p) == {FragmentsOf(p)[n].id : n \in 1..Len(FragmentsOf(p))}

Fragment(p, id) == CHOOSE f \in Range(FragmentsOf(p)) : f.id = id

\* The fragments of the page that group i names, in the order of the group.
MemberSeq(p, i) ==
    LET named == SelectSeq(GroupsOf(p)[i].a, LAMBDA x : x.n \in FragmentIds(p))
    IN [j \in 1..Len(named) |-> Fragment(p, named[j].n)]

\* The groups that resolve to at least one fragment.
NonEmpty(p) == {i \in 1..Len(GroupsOf(p)) : MemberSeq(p, i) # <<>>}

\* The rank of group i among the groups that resolve to a fragment.
Position(p, i) == Cardinality({j \in NonEmpty(p) : j <= i})

EntityOfGroup(p, i) == FormOf(p)[Position(p, i)]

HasKey(o, key) == \E j \in 1..Len(o.k) : o.k[j] = key

ValueAt(o, key) == o.a[CHOOSE j \in 1..Len(o.k) : o.k[j] = key]

\* The object o without the keys outside keys.
Restrict(o, keys) ==
    LET idx == SelectSeq([j \in 1..Len(o.k) |-> j], LAMBDA j : o.k[j] \in keys)
    IN J_obj([m \in 1..Len(idx) |-> o.k[idx[m]]], [m \in 1..Len(idx) |-> o.a[idx[m]]])

\* The label values merge can resolve: an integer, null or a decimal string.
Resolvable(v) == v.t \in {"int", "null"} \/ (v.t = "str" /\ v.s \in DOMAIN IntOfStr)

AsLabelId(v) == IF v.t = "str" THEN J_int(IntOfStr[v.s]) ELSE v

(***************************************************************************)
(* C3: for every group that resolves to at least one fragment, the box of  *)
(* its entity contains the box of every member fragment and each of its    *)
(* four sides is the side of some member.                                  *)
(***************************************************************************)
C3_BoxUnion ==
    \A p \in Merged : \A i \in NonEmpty(p) :
        /\ Position(p, i) <= Len(FormOf(p))
        /\ LET box == EntityOfGroup(p, i).box
               M == Range(MemberSeq(p, i))
           IN /\ \A f \in M : /\ box[1] <= f.box[1] /\ box[2] <= f.box[2]
                              /\ f.box[3] <= box[3] /\ f.box[4] <= box[4]
              /\ \A side \in 1..4 : \E f \in M : f.box[side] = box[side]

\* A merged entity of two fragments whose box is the box of neither.
C3_Witness ==
    \E p \in Merged : \E i \in NonEmpty(p) :
        /\ Len(MemberSeq(p, i)) = 2
        /\ \A f \in Range(MemberSeq(p, i)) : f.box # EntityOfGroup(p, i).box

(***************************************************************************)
(* C4: with K groups resolving to a fragment, the entities carry the ids   *)
(* 0..K-1 in order and entity i is made from the i-th such group.          *)
(***************************************************************************)
C4_EntityIds ==
    \A p \in Merged :
        /\ Len(FormOf(p)) = Cardinality(NonEmpty(p))
        /\ \A k \in 1..Len(FormOf(p)) : FormOf(p)[k].id = k - 1
        /\ \A i \in NonEmpty(p) :
               EntityOfGroup(p, i).text =
                   JoinTexts([j \in 1..Len(MemberSeq(p, i)) |-> MemberSeq(p, i)[j].text])

\* Two entities made from three groups, a skipped group before the last.
C4_Witness ==
    \E p \in Merged :
        /\ Len(GroupsOf(p)) = 3 /\ Len(FormOf(p)) = 2
        /\ 3 \in NonEmpty(p)
        /\ FormOf(p)[1].text # FormOf(p)[2].text

(***************************************************************************)
(* C5: a group that resolves to a fragment and whose index is no key of    *)
(* the classification mapping yields label id 27, fine label "other" and   *)
(* coarse label "other".                                                   *)
(***************************************************************************)
C5_DefaultLabel ==
    \A p \in Merged : ClassOf(p).t = "obj" =>
        \A i \in NonEmpty(p) : ~HasKey(ClassOf(p), str(i - 1)) =>
            /\ EntityOfGroup(p, i).bol_label_id = J_int(27)
            /\ EntityOfGroup(p, i).bol_label = "other"
            /\ EntityOfGroup(p, i).label = "other"

\* One entity labelled by its key next to one that has no key.
C5_Witness ==
    \E p \in Merged :
        /\ ClassOf(p).t = "obj"
        /\ \E i, j \in NonEmpty(p) : /\ ~HasKey(ClassOf(p), str(i - 1))
                                     /\ HasKey(ClassOf(p), str(j - 1))
                                     /\ EntityOfGroup(p, j).bol_label_id # J_int(27)

(***************************************************************************)
(* C6: the word boxes of an entity with non-empty text run left to right   *)
(* (x_min and x_max never decrease), have x_min <= x_max, lie within the   *)
(* x-range of the entity, start at its x_min and have its y_min and y_max. *)
(***************************************************************************)
C6_WordSpans ==
    \A p \in PageNames : Exists(fs_funsd, p) =>
        \A k \in 1..Len(FormOf(p)) :
            LET e == FormOf(p)[k]
                ws == e.words
            IN e.text # <<>> =>
                /\ ws # <<>>
                /\ ws[1].box[1] = e.box[1]
                /\ \A j \in 1..Len(ws) :
                       /\ ws[j].box[1] <= ws[j].box[3]
                       /\ e.box[1] <= ws[j].box[1] /\ ws[j].box[3] <= e.box[3]
                       /\ ws[j].box[2] = e.box[2] /\ ws[j].box[4] = e.box[4]
                       /\ j < Len(ws) => /\ ws[j].box[1] <= ws[j + 1].box[1]
                                         /\ ws[j].box[3] <= ws[j + 1].box[3]

\* An entity of three words or more whose words start one after the other
\* and whose last word ends before the box does.
C6_Witness ==
    \E p \in PageNames : Exists(fs_funsd, p) /\
        \E k \in 1..Len(FormOf(p)) :
            LET e == FormOf(p)[k] IN
            /\ Len(e.words) >= 3
            /\ e.words[1].box[1] < e.words[2].box[1]
            /\ e.words[2].box[1] < e.words[3].box[1]
            /\ e.words[Len(e.words)].box[3] < e.box[3]

(***************************************************************************)
(* C7: in every grouping artifact the grouper has written no fragment id   *)
(* appears in two different groups, and in the merged output no fragment   *)
(* contributes to more than one entity.                                    *)
(***************************************************************************)
C7_GroupsDisjoint ==
    /\ \A p \in PageNames : (Exists(fs_grouping, p) /\ IsGroupList(fs_grouping[p][1].groups)) =>
           \A i, j \in 1..Len(GroupsOf(p)) :
               i # j => Range(GroupsOf(p)[i].a) \cap Range(GroupsOf(p)[j].a) = {}
    /\ \A p \in Merged : \A i, j \in NonEmpty(p) :
           i # j => Range(MemberSeq(p, i)) \cap Range(MemberSeq(p, j)) = {}

(***************************************************************************)
(* C8: when the inputs of a page are read, its groups are lists of ids and *)
(* the labels of its groups are resolvable, an id that names no fragment   *)
(* of the page does not fail the page: the page is written and counted as  *)
(* a success, there is one entity for each group with an existing member,  *)
(* made of the existing members, and none for the other groups.            *)
(***************************************************************************)
C8_MissingIds ==
    LET p == last.page IN
    (/\ last.stage = 5 /\ ~last.io_error
     /\ IsGroupList(fs_grouping[p][1].groups)
     /\ ClassOf(p).t = "obj"
     /\ \A i \in NonEmpty(p) :
            HasKey(ClassOf(p), str(i - 1)) => Resolvable(ValueAt(ClassOf(p), str(i - 1))))
    => /\ last.ok /\ last.wrote /\ Exists(fs_funsd, p)
       /\ stats.success >= 1 /\ stats.failed = 0
       /\ Len(FormOf(p)) = Cardinality(NonEmpty(p))
       /\ \A i \in NonEmpty(p) :
              /\ EntityOfGroup(p, i).text =
                     JoinTexts([j \in 1..Len(MemberSeq(p, i)) |-> MemberSeq(p, i)[j].text])
              /\ EntityOfGroup(p, i).box[1] =
                     SeqMin([j \in 1..Len(MemberSeq(p, i)) |-> MemberSeq(p, i)[j].box[1]])

\* A successful page with a group of an existing and a missing id and a
\* group of a missing id only.
C8_Witness ==
    /\ last.stage = 5 /\ last.ok
    /\ last.page \in Merged
    /\ \E i \in NonEmpty(last.page) :
           Len(MemberSeq(last.page, i)) < Len(GroupsOf(last.page)[i].a)
    /\ \E i \in 1..Len(GroupsOf(last.page)) :
           GroupsOf(last.page)[i].a # <<>> /\ i \notin NonEmpty(last.page)

(***************************************************************************)
(* C9: the label of the entity made from the group at position i is the    *)
(* classification value under the key str(i), the position in the group    *)
(* list and not the entity id, and the keys that are the index of no group *)
(* have no effect on the output.                                           *)
(***************************************************************************)
C9_LabelByPosition ==
    \A p \in Merged : ClassOf(p).t = "obj" =>
        /\ \A i \in NonEmpty(p) : HasKey(ClassOf(p), str(i - 1)) =>
               LET id == AsLabelId(ValueAt(ClassOf(p), str(i - 1))) IN
               /\ EntityOfGroup(p, i).bol_label_id = id
               /\ EntityOfGroup(p, i).bol_label = bol_label_of(id)
               /\ EntityOfGroup(p, i).label = get_funsd_label(id)
        /\ LET inside == {str(i - 1) : i \in 1..Len(GroupsOf(p))}
               kept == [image_name |-> p, classifications |-> Restrict(ClassOf(p), inside)]
           IN fs_funsd[p][1] =
                  generate_funsd(p, fs_ocr[p][1], fs_grouping[p][1], kept).data

\* An entity behind a skipped group, where the value under its position
\* differs from the value under its entity id, next to a key beyond the groups.
C9_Witness ==
    \E p \in Merged : ClassOf(p).t = "obj" /\
        /\ \E i \in NonEmpty(p) :
               /\ Position(p, i) < i
               /\ HasKey(ClassOf(p), str(i - 1))
               /\ HasKey(ClassOf(p), str(Position(p, i) - 1))
               /\ ValueAt(ClassOf(p), str(i - 1)) # ValueAt(ClassOf(p), str(Position(p, i) - 1))
        /\ \E j \in 1..Len(ClassOf(p).k) :
               ClassOf(p).k[j] \notin {str(i - 1) : i \in 1..Len(GroupsOf(p))}

(***************************************************************************)
(* C10: the grouper writes the grouping artifact of a page only when the   *)
(* response without its fence parses as an array of arrays of integers;    *)
(* after any other response the page is counted as failed and nothing is   *)
(* written.                                                                *)
(***************************************************************************)
C10_GroupShape ==
    last.stage = 3 =>
        LET r == ParseResponse(last.raw)
            shaped == r.ok /\ IsGroupList(r.v)
        IN /\ last.wrote => shaped
           /\ ~shaped => ~last.ok /\ ~Exists(fs_grouping, last.page)

(***************************************************************************)
(* C1: a second run over the artifacts of a complete first run calls       *)
(* neither the OCR backend nor the VLM backend and leaves every final      *)
(* annotation as the first run wrote it.                                   *)
(***************************************************************************)
C1_IdempotentResume ==
    (run >= 2 /\ \A p \in PageNames : Exists(snapshot, p)) =>
        /\ calls.ocr = 0 /\ calls.vlm = 0
        /\ fs_funsd = snapshot

(***************************************************************************)
(* C2: over any sequence of runs every stage writes the artifact of a      *)
(* page at most once.                                                      *)
(***************************************************************************)
C2_WriteOnce ==
    \A s \in StepNums : \A p \in PageNames : writes[s][p] <= 1

\* A line that is a fence delimiter and nothing else.
IsFenceLine(line) == Len(line) = 1 /\ line[1] \in FenceTok

\* The lines without one leading and one trailing fence line, where present.
WithoutFenceLines(lines) ==
    LET body == IF lines # <<>> /\ IsFenceLine(lines[1]) THEN Tail(lines) ELSE lines
    IN IF body # <<>> /\ IsFenceLine(body[Len(body)])
       THEN SubSeq(body, 1, Len(body) - 1) ELSE body

\* The JSON value of a response of which only fence lines are removed.
ParseUnfenced(raw) == json_loads(JoinLines(WithoutFenceLines(Strip(raw))))

(***************************************************************************)
(* C11: the grouper and the classifier remove one leading and one trailing *)
(* fence line where present and nothing else, so the artifact of a page is *)
(* made from the JSON value of all other lines of the response.            *)
(***************************************************************************)
C11_FenceLinesOnly ==
    /\ last.stage = 3 =>
           fs_grouping[last.page] =
               grouping_output(last.page, fs_ocr[last.page][1], ParseUnfenced(last.raw))
    /\ (last.stage = 4 /\ last.called) =>
           fs_classification[last.page] =
               (IF ParseUnfenced(last.raw).ok
                THEN <<[image_name |-> last.page,
                        classifications |-> ParseUnfenced(last.raw).v]>>
                ELSE <<>>)

(***************************************************************************)
(* C12: a page the grouper or the classifier counts as failed is counted   *)
(* once and has no artifact of that stage, so the next scan selects it.    *)
(***************************************************************************)
C12_FailedPageNoArtifact ==
    (last.stage \in {3, 4} /\ stage = last.stage /\ ~last.ok) =>
        /\ stats.failed >= 1
        /\ stats.success + stats.failed + Cardinality(tasks) = stats.total
        /\ last.stage = 3 => ~Exists(fs_grouping, last.page)
        /\ last.stage = 4 => ~Exists(fs_classification, last.page)

(***************************************************************************)
(* C13: a step whose OCR library, VLM client library or API key is missing *)
(* stops before it processes any page: no page of its scan is attempted    *)
(* and counted as failed one by one.                                       *)
(***************************************************************************)
C13_AbortsEarly ==
    ((stage = 2 /\ ~OcrAvailable) \/ (stage \in {3, 4} /\ ~VlmAvailable)) =>
        /\ stats.failed = 0
        /\ pc # "start" => Cardinality(tasks) = stats.total

(***************************************************************************)
(* C14: when the run of a step completes, success + failed = total: every  *)
(* scanned document or page that did not succeed is counted as failed.     *)
(***************************************************************************)
C14_StatsAddUp ==
    (stage \in StepNums /\ pc = "done") => stats.success + stats.failed = stats.total

\* The coarse label the target schema gives a category.
CoarseOf(category) ==
    CASE category \in {"role", "geography", "transport", "cargo", "number", "rate"} -> "answer"
      [] category = "layout" -> "header"
      [] category = "other" -> "other"

(***************************************************************************)
(* C15: an entity with a label id in 0..28 has the coarse label "answer"   *)
(* when the category of the id is role, geography, transport, cargo,       *)
(* number or rate, "header" when it is layout and "other" when it is       *)
(* other; no entity has the coarse label "question".                       *)
(***************************************************************************)
C15_CoarseLabels ==
    \A p \in PageNames : Exists(fs_funsd, p) =>
        \A k \in 1..Len(FormOf(p)) :
            LET e == FormOf(p)[k] IN
            /\ e.label # "question"
            /\ (e.bol_label_id.t = "int" /\ e.bol_label_id.n \in 0..28) =>
                   /\ BILL_OF_LADING_LABELS[e.bol_label_id.n].category \in
                          {"role", "geography", "transport", "cargo", "number", "rate",
                           "layout", "other"}
                   /\ e.label = CoarseOf(BILL_OF_LADING_LABELS[e.bol_label_id.n].category)

\* An entity of the layout label company_logo with the coarse label header.
C15_Witness ==
    \E p \in PageNames : Exists(fs_funsd, p) /\ FormOf(p) # <<>> /\
        FormOf(p)[1].bol_label_id = J_int(24) /\ FormOf(p)[1].label = "header"

\* The page of the concrete scenario: fragments 0 ("Shipper", [0,0,50,10])
\* and 1 ("ABC Co.", [0,12,80,22]), grouping [[0,1]], classification {"0": 0}.
ScenarioMerged ==
    /\ "a_page_1" \in Merged
    /\ Len(FragmentsOf("a_page_1")) = 2
    /\ FragmentsOf("a_page_1")[1].text = <<"S", "h", "i", "p", "p", "e", "r">>
    /\ FragmentsOf("a_page_1")[1].box = <<0, 0, 50, 10>>
    /\ FragmentsOf("a_page_1")[2].text = <<"A", "B", "C", " ", "C", "o", ".">>
    /\ FragmentsOf("a_page_1")[2].box = <<0, 12, 80, 22>>
    /\ fs_grouping["a_page_1"][1].groups = JGroups(<<<<0, 1>>>>)
    /\ ClassOf("a_page_1") = J_obj(<<"0">>, <<J_int(0)>>)

\* The entity of the scenario but for its words.
ScenarioEntity ==
    LET form == FormOf("a_page_1") IN
    /\ Len(form) = 1
    /\ form[1].id = 0
    /\ form[1].box = <<0, 0, 80, 22>>
    /\ form[1].text = <<"S", "h", "i", "p", "p", "e", "r", " ", "A", "B", "C", " ", "C", "o", ".">>
    /\ form[1].bol_label_id = J_int(0)
    /\ form[1].label = "answer"

\* The words run left to right within the x-range [0, 80].
ScenarioWordsInRange ==
    LET ws == FormOf("a_page_1")[1].words IN
    \A j \in 1..Len(ws) :
        /\ 0 <= ws[j].box[1] /\ ws[j].box[1] <= ws[j].box[3] /\ ws[j].box[3] <= 80
        /\ j < Len(ws) => ws[j].box[3] <= ws[j + 1].box[1]

(***************************************************************************)
(* C16 as stated: the scenario yields one entity with id 0, box            *)
(* [0,0,80,22], text "Shipper ABC Co.", label id 0, coarse label "answer"  *)
(* and two words running left to right within [0,80].                      *)
(***************************************************************************)
C16_TwoWords ==
    ScenarioMerged =>
        /\ ScenarioEntity
        /\ Len(FormOf("a_page_1")[1].words) = 2
        /\ ScenarioWordsInRange

(***************************************************************************)
(* C16 amended: the same entity, with the three words "Shipper", "ABC" and *)
(* "Co." of its text running left to right within [0,80].                  *)
(***************************************************************************)
C16_ThreeWords ==
    ScenarioMerged =>
        /\ ScenarioEntity
        /\ LET ws == FormOf("a_page_1")[1].words IN
           /\ Len(ws) = 3
           /\ ws[1].text = <<"S", "h", "i", "p", "p", "e", "r">>
           /\ ws[2].text = <<"A", "B", "C">>
           /\ ws[3].text = <<"C", "o", ".">>
        /\ ScenarioWordsInRange

\* The scenario has been merged by step 5.
C16_Witness == ScenarioMerged /\ last.stage = 5 /\ last.ok /\ last.page = "a_page_1"

(***************************************************************************)
(* C17: in every OCR artifact step 2 writes, the fragment at position k    *)
(* has id k (counting from 0) and is the k-th line of the backend,         *)
(* total_boxes is the number of fragments, and the box of a fragment is    *)
(* the bounding rectangle of its polygon, with x_min <= x_max and          *)
(* y_min <= y_max.                                                         *)
(***************************************************************************)
C17_FragmentIds ==
    \A p \in PageNames : Exists(fs_ocr, p) =>
        LET tb == FragmentsOf(p)
            lines == OcrBackend(fs_images[p][1])
        IN /\ fs_ocr[p][1].total_boxes = Len(tb)
           /\ Len(tb) = Len(lines)
           /\ \A k \in 1..Len(tb) :
                  /\ tb[k].id = k - 1
                  /\ tb[k].text = lines[k].text
                  /\ tb[k].box[1] <= tb[k].box[3] /\ tb[k].box[2] <= tb[k].box[4]
                  /\ \A pt \in Range(tb[k].polygon) :
                         /\ tb[k].box[1] <= pt[1] /\ pt[1] <= tb[k].box[3]
                         /\ tb[k].box[2] <= pt[2] /\ pt[2] <= tb[k].box[4]
                  /\ \E pt \in Range(tb[k].polygon) : pt[1] = tb[k].box[1]
                  /\ \E pt \in Range(tb[k].polygon) : pt[2] = tb[k].box[2]
                  /\ \E pt \in Range(tb[k].polygon) : pt[1] = tb[k].box[3]
                  /\ \E pt \in Range(tb[k].polygon) : pt[2] = tb[k].box[4]

\* Step 2 has written an artifact of three fragments with slanted polygons.
C17_Witness ==
    /\ last.stage = 2 /\ last.wrote
    /\ Len(FragmentsOf(last.page)) = 3
    /\ FragmentsOf(last.page)[3].polygon[1][2] # FragmentsOf(last.page)[3].polygon[2][2]

(***************************************************************************)
(* The batches of a run: the pages in the order in which the run takes     *)
(* them, the requests that are in flight, and the sleeps that are due.     *)
(***************************************************************************)
\* The images the script selected, and the place of each in img_paths.
Selected == {img_paths[k][1] : k \in 1..Len(img_paths)}

PlaceOf(p) == CHOOSE k \in 1..Len(img_paths) : img_paths[k][1] = p

\* The batch of the page at place k (from 1), counted from 0.
BatchAt(k) == (k - 1) \div config.batch_size

IsSubmitted(p) == request[p] # "none"

InFlight == {p \in ImgNames : request[p] \in {"queued", "running"}}

\* Among n pages taken of N, the full batches that further pages follow.
SleepsDue(n, N) == Cardinality({k \in 1..N : k * config.batch_size < N
                                             /\ k * config.batch_size <= n})

ScriptRuns == main.pc \in {"submit", "collect", "sleep", "done"}

StepRuns == stage \in {3, 4} /\ pc \in {"loop", "sleep", "done"}

\* The pages step 3 or 4 has taken so far.
Taken == stats.total - Cardinality(tasks)

(***************************************************************************)
(* C18. In a run of N pending pages with batch size B, the stage has slept *)
(* the fixed interval once for every k >= 1 with kB < N whose batch is     *)
(* complete, whether or not pages failed: it sleeps only after page kB     *)
(* with kB < N, no page after page kB is started before that sleep has     *)
(* ended, and at the end of the run it has slept once per such k, so never *)
(* after the last page.                                                    *)
(***************************************************************************)
C18_SleepBetweenBatches ==
    /\ StepRuns =>
           /\ slept = config.interval *
                        (SleepsDue(Taken, stats.total) - (IF pc = "sleep" THEN 1 ELSE 0))
           /\ pc = "sleep" => /\ Taken % config.batch_size = 0
                              /\ 0 < Taken /\ Taken < stats.total
           /\ pc = "done" => /\ Taken = stats.total
                             /\ slept = config.interval * SleepsDue(stats.total, stats.total)
    /\ ScriptRuns =>
           /\ slept = config.interval * SleepsDue(main.i, Len(img_paths))
           /\ \A p \in Selected :
                  IsSubmitted(p) => BatchAt(PlaceOf(p)) * config.interval <= slept
           /\ main.pc = "sleep" =>
                  /\ main.i + config.batch_size < Len(img_paths)
                  /\ \A p \in Selected :
                         IsSubmitted(p) <=> PlaceOf(p) <= main.i + config.batch_size
                  /\ InFlight = {}
           /\ main.pc = "done" =>
                  /\ \A p \in Selected : request[p] = "finished"
                  /\ slept = config.interval * SleepsDue(Len(img_paths), Len(img_paths))

\* A script has taken three images one at a time, the first without a
\* response, and has slept twice.
C18_Witness ==
    /\ main.pc = "done" /\ Len(img_paths) = 3 /\ config.batch_size = 1
    /\ answers[1] = <<>> /\ answers[3] # <<>>
    /\ slept = 2 * config.interval

(***************************************************************************)
(* C19. In a run of an annotation script at most batch_size requests are   *)
(* in flight, every request of the earlier batches has finished when a     *)
(* request of a batch has been submitted, and no two requests in flight    *)
(* use the same client handle.                                             *)
(***************************************************************************)
C19_BatchesApart ==
    ScriptRuns =>
        /\ Cardinality(InFlight) <= config.batch_size
        /\ \A p, q \in Selected :
               IsSubmitted(p) /\ BatchAt(PlaceOf(q)) < BatchAt(PlaceOf(p))
                   => request[q] = "finished"
        /\ \A p, q \in InFlight : p # q => client_of[p] # client_of[q]

\* Two requests of the first batch of three selected images run at once.
C19_Witness ==
    /\ config.batch_size = 2 /\ Len(img_paths) = 3
    /\ \E p, q \in InFlight : /\ p # q
                              /\ request[p] = "running" /\ request[q] = "running"

(***************************************************************************)
(* C20. The txt files a script leaves are a function of the txt files it   *)
(* found and of the responses, in whatever order the requests ran: a file  *)
(* holds the response of the last selected image of which it is the        *)
(* txt_path and that has a response, and is as it was found when there is  *)
(* none; and no file is written more than once in a run.                   *)
(***************************************************************************)
\* The places in img_paths of the images with a response and this txt_path.
WritersOf(t) ==
    {k \in 1..Len(img_paths) : img_paths[k][2] = t /\ answers[img_paths[k][1]] # <<>>}

ExpectedTxt ==
    [t \in TxtPaths |->
        IF WritersOf(t) = {} THEN txt0[t]
        ELSE LET k == CHOOSE w \in WritersOf(t) : \A v \in WritersOf(t) : v <= w
             IN <<answers[img_paths[k][1]]>>]

C20_SameOutputs ==
    ScriptRuns =>
        /\ main.pc = "done" => txt = ExpectedTxt
        /\ \A t \in TxtPaths : txt_writes[t] <= 1

(***************************************************************************)
(* C21. Once the user has interrupted a run of an annotation script, no    *)
(* further request is submitted, of a later batch or of the current one,   *)
(* and the process exits only when every request that was submitted has    *)
(* run to completion.                                                      *)
(***************************************************************************)
Interrupted == main.pc \in {"exiting", "exited"}

C21_DrainOnInterrupt ==
    /\ [](main.pc = "exited" => \A p \in ImgNames : request[p] \in {"none", "finished"})
    /\ [][Interrupted =>
              /\ \A p \in ImgNames : request[p] = "none" => request'[p] = "none"
              /\ \A p \in ImgNames : request[p] = "finished" => request'[p] = "finished"
              /\ main'.pc \in {"exiting", "exited"}]_vars

\* The interrupt came while both requests of the first batch of two were
\* running and a third image was waiting for the next batch.
C21_Witness ==
    /\ main.pc = "exiting" /\ config.batch_size = 2 /\ Len(img_paths) = 3
    /\ Cardinality({p \in ImgNames : request[p] = "running"}) = 2
    /\ slept = 0

(***************************************************************************)
(* C22. The stages the runner has started have numbers in [start, end] and *)
(* were started in strictly ascending order, each after the process of the *)
(* one before had exited; a stage was started after a failed one only if   *)
(* the user answered y at the prompt of every stage that had failed; and   *)
(* when no stage runs, success_count + failed_count is the number of       *)
(* stages that were started.                                               *)
(***************************************************************************)
RunnerRuns == runner.pc # "off"

AnsweredYes(reply) == reply \in {<<"y">>, <<"Y">>, <<" ", "y", " ">>}

C22_StagesInOrder ==
    RunnerRuns =>
        /\ \A k \in 1..Len(launched) :
               /\ runner.start_step <= launched[k].step_num
               /\ launched[k].step_num <= runner.end_step
               /\ launched[k].step_num \in 1..5
        /\ \A k, l \in 1..Len(launched) :
               k < l => /\ launched[k].step_num < launched[l].step_num
                        /\ launched[k].exited
                        /\ ~launched[k].success => AnsweredYes(launched[k].reply)
        /\ runner.pc = "running" <=> (launched # <<>> /\ ~launched[Len(launched)].exited)
        /\ runner.pc # "running" =>
               runner.success_count + runner.failed_count = Len(launched)
        /\ runner.success_count =
               Cardinality({k \in 1..Len(launched) :
                               launched[k].exited /\ launched[k].success})

\* Stages 2 to 4 were selected; stage 3 failed, the user answered Y, and
\* stage 4 was run: the summary counts two successes and one failure.
C22_Witness ==
    /\ runner.pc = "summary" /\ runner.start_step = 2 /\ runner.end_step = 4
    /\ Len(launched) = 3
    /\ ~launched[2].success /\ launched[2].reply = <<"Y">>
    /\ launched[3].step_num = 4
    /\ runner.success_count = 2 /\ runner.failed_count = 1

(***************************************************************************)
(* C23. When process_txt_files has visited a file that it could read, a    *)
(* file that began with a fence line and has a closing fence line holds    *)
(* exactly the lines that lay between the two, all of them, and a file     *)
(* that did not begin with a fence line is as it was.                      *)
(***************************************************************************)
Visited == {t \in TxtPaths : t \notin corrector.left /\ t \notin corrector.raised}

\* The place of the last fence line after the first line, 0 if there is none.
ClosingFence(lines) ==
    LET cs == {k \in 2..Len(lines) : lines[k] \in FenceTok}
    IN IF cs = {} THEN 0 ELSE CHOOSE k \in cs : \A j \in cs : j <= k

C23_PayloadKept ==
    corrector.pc # "off" =>
        \A t \in Visited :
            LET before == txt0[t][1]
            IN IF before[1] \in FenceTok
               THEN ClosingFence(before) > 0 =>
                        txt[t] = <<SubSeq(before, 2, ClosingFence(before) - 1)>>
               ELSE txt[t] = txt0[t]

(***************************************************************************)
(* C24. In the OCR stage and in the merge stage a page that the run has    *)
(* counted as failed has no artifact written by that call, also when the   *)
(* drawing of the visualization is switched on and fails.                  *)
(***************************************************************************)
C24_FailedPageNoArtifact ==
    (last.stage \in {2, 5} /\ ~last.ok) => ~last.wrote

(***************************************************************************)
(* C25. Two different (document, page index) pairs of the documents the    *)
(* recursive scan found are never saved under the same page image name.    *)
(***************************************************************************)
C25_DistinctImageNames ==
    rasterizer.pc # "off" =>
        \A n \in DOMAIN image_dir :
            \A i, j \in 1..Len(image_dir[n]) : image_dir[n][i] = image_dir[n][j]

(***************************************************************************)
(* C26. When every backend call succeeds with a well-formed response and   *)
(* steps 2, 3, 4 and 5 have run once in order, every image step 2 scanned  *)
(* and wrote an OCR artifact for has a final FUNSD annotation file.        *)
(***************************************************************************)
C26_EveryScannedImageMerged ==
    (stage = 5 /\ pc = "done") =>
        \A p \in PageNames : writes[2][p] > 0 => Exists(fs_funsd, p)

(***************************************************************************)
(* C27. As long as no artifact is deleted: a page with a classification    *)
(* artifact has a grouping artifact and an OCR artifact; a page with a     *)
(* final FUNSD annotation has all three and its image; and the pages a     *)
(* step has taken as its tasks have the artifact of the step before.       *)
(***************************************************************************)
C27_ArtifactChain ==
    /\ \A p \in PageNames :
           Exists(fs_classification, p) => Exists(fs_grouping, p) /\ Exists(fs_ocr, p)
    /\ \A p \in PageNames :
           Exists(fs_funsd, p) =>
               /\ Exists(fs_classification, p) /\ Exists(fs_grouping, p)
               /\ Exists(fs_ocr, p) /\ Exists(fs_images, p)
    /\ \A p \in tasks :
           /\ stage = 2 => Exists(fs_images, p)
           /\ stage = 3 => Exists(fs_ocr, p)
           /\ stage = 4 => Exists(fs_grouping, p)
           /\ stage = 5 => Exists(fs_classification, p)
    /\ last.stage = 3 => Exists(fs_ocr, last.page)
    /\ last.stage = 4 => Exists(fs_grouping, last.page)
    /\ last.stage = 5 => Exists(fs_classification, last.page)

\* Step 5 has merged one page while the other, whose OCR failed, has an image
\* and nothing else.
C27_Witness ==
    /\ stage = 5 /\ pc = "done"
    /\ Exists(fs_funsd, "a_page_1") /\ last.stage = 5 /\ last.page = "a_page_1"
    /\ Exists(fs_images, "b_page_1") /\ ~Exists(fs_ocr, "b_page_1")
    /\ ~Exists(fs_grouping, "b_page_1") /\ ~Exists(fs_funsd, "b_page_1")

(***************************************************************************)
(* C28. Whatever classification artifact step 4 has written, every entity  *)
(* of the merged page has an integer bol_label_id in 0..28, the taxonomy   *)
(* name of that id as bol_label and the coarse value of the category of    *)
(* that id as label.                                                       *)
(***************************************************************************)
C28_LabelFieldsAgree ==
    \A p \in PageNames : (Exists(fs_funsd, p) /\ writes[4][p] > 0) =>
        \A k \in 1..Len(FormOf(p)) :
            LET e == FormOf(p)[k] IN
            /\ e.bol_label_id.t = "int"
            /\ e.bol_label_id.n \in 0..28
            /\ e.bol_label = LABEL_ID_TO_NAME[e.bol_label_id.n]
            /\ e.label = CoarseOf(BILL_OF_LADING_LABELS[e.bol_label_id.n].category)

\* FUNSD_LABEL_MAPPING of generate_funsd_format.py, by label id.
GENERATE_LABEL_MAPPING ==
    [i \in 0..28 |-> CASE i = 22 -> "header"
                       [] i \in {23, 24, 27, 28} -> "other"
                       [] OTHER -> "answer"]

\* FUNSD_LABEL_MAPPING of pdf_to_funsd.py, by label id.
PDF_LABEL_MAPPING ==
    [i \in 0..28 |-> CASE i \in 0..21 \cup {25, 26} -> "answer"
                       [] i = 22 -> "header"
                       [] i \in {23, 24} \cup {27, 28} -> "other"]

\* funsd_label = FUNSD_LABEL_MAPPING.get(bol_class_id, "other") of the two
\* direct generators.
direct_label(mapping, bol_class_id) ==
    IF bol_class_id.t = "int" /\ bol_class_id.n \in DOMAIN mapping
    THEN mapping[bol_class_id.n]
    ELSE "other"

(***************************************************************************)
(* C29. An entity step 5 has merged with a label id in 0..28 has the       *)
(* coarse label that generate_funsd_format.py and pdf_to_funsd.py give     *)
(* that id.                                                                *)
(***************************************************************************)
C29_SameCoarseLabel ==
    \A p \in PageNames : Exists(fs_funsd, p) =>
        \A k \in 1..Len(FormOf(p)) :
            LET e == FormOf(p)[k] IN
            (e.bol_label_id.t = "int" /\ e.bol_label_id.n \in 0..28) =>
                /\ e.label = direct_label(GENERATE_LABEL_MAPPING, e.bol_label_id)
                /\ e.label = direct_label(PDF_LABEL_MAPPING, e.bol_label_id)

(***************************************************************************)
(* C30. When process_directory returns, every supported document under     *)
(* the input directory has exactly one entry in results, total_files is    *)
(* the number of these documents, and processed_files + failed_files is    *)
(* total_files; a document that raised is counted as failed.               *)
(***************************************************************************)
SupportedDocuments == {d \in input_dir : d.ext \in Range(supported_ext)}

C30_EachDocumentOnce ==
    converter.pc = "done" =>
        /\ \A d \in SupportedDocuments :
               Cardinality({k \in 1..Len(converter.results) :
                                converter.results[k].file = d}) = 1
        /\ converter.total_files = Cardinality(SupportedDocuments)
        /\ converter.processed_files + converter.failed_files = converter.total_files
        /\ Len(converter.results) = converter.total_files
        /\ converter.failed_files =
               Cardinality({k \in 1..Len(converter.results) :
                                converter.results[k].status = "failed"})

====
